---- MODULE Spec2Model ----
(***************************************************************************)
(* TRMNL MBTA schedule display.                                            *)
(*                                                                         *)
(* The programs and functions of the repository that are modelled:         *)
(*   - the command line poll loop (cli.py) that fetches predictions,       *)
(*     compares their hash with the previous one and hands changed data    *)
(*     to update_trmnl_display of src/mbta/display.py, which is gated by   *)
(*     the process-wide TRMNLRateLimiter            (specification Spec);  *)
(*   - update_trmnl_display of src/mbta/main.py (the web server's          *)
(*     publisher), which retries a delivery with exponential backoff       *)
(*                                             (specification SpecRetry).  *)
(*   - calculate_prediction_hash, applied to two lists of predictions      *)
(*                                              (specification SpecHash);  *)
(*   - process_predictions of src/mbta/display.py, called twice with the   *)
(*     same predictions, answers of the MBTA API and wall clock            *)
(*                                         (specification SpecReconcile);  *)
(*   - get_stop_info of src/mbta/api.py as the coroutines of the gathers   *)
(*     that process_predictions runs on the shared stop cache              *)
(*                                            (specification SpecLookup).  *)
(*                                                                         *)
(* Wall-clock time is an integer number of seconds counted from the start  *)
(* of the clock hour in which the process was started.                     *)
(***************************************************************************)
EXTENDS Integers, Sequences, FiniteSets, TLC

VARIABLES
    now,                   \* the wall clock (datetime.now()), in seconds
    rate_limiter,          \* display._rate_limiter: the TRMNLRateLimiter fields
    last_prediction_hash,  \* cli._last_prediction_hash
    pc,                    \* where the poll loop of cli.py is suspended
    debug_mode,            \* constants.DEBUG_MODE (read once from the environment)
    webhook_url,           \* constants.TRMNL_WEBHOOK_URL (read once from the environment)
    changed,               \* this cycle: the hash differed from the recorded one
    gate,                  \* this cycle: what can_update() returned in update_trmnl_display
    posts,                 \* this cycle: number of POSTs issued to the sink
    outcome,               \* this cycle: how it ended
    answer,                \* this cycle: what the sink answered to the POST
    lastDelivery,          \* history: when the sink last answered 200
    hourDeliveries,        \* history: 200 answers within the clock hour of lastDelivery
    lastGap,               \* history: seconds between the two most recent 200 answers,
                           \*          counted up to MinIntervalSeconds
    resetBetween,          \* history: a rollover reset happened since the last 200 answer
    capHour,               \* history: clock hour in which updates_this_hour reached the cap
    deliveredHash,         \* history: the hash of the cycle whose POST was last answered 200
    attempt,               \* main.update_trmnl_display: the loop variable attempt
    rstate,                \* main.update_trmnl_display: state of the retry loop
    tries,                 \* main.update_trmnl_display: responses received this call
    waits,                 \* main.update_trmnl_display: the asyncio.sleep delays of this call
    hashIn1,               \* calculate_prediction_hash: a first list of predictions
    hashIn2,               \* calculate_prediction_hash: a second list of predictions
    hashOut1,              \* calculate_prediction_hash(hashIn1)
    hashOut2,              \* calculate_prediction_hash(hashIn2)
    request,               \* process_predictions: config.route_id of the cycle, the
                           \*   predictions fetched for it, the answers of the MBTA API
                           \*   and the wall clock of one call
    stop_info_cache,       \* constants._stop_info_cache
    result,                \* process_predictions: what the last call returned
    previous_result,       \* process_predictions: what the call before it returned
    gather                 \* asyncio.gather(*[get_stop_info(stop_id) ...]): the lookups
                           \*   of the gather that is running, or that ran last

cliVars == <<now, rate_limiter, last_prediction_hash, pc, debug_mode, webhook_url,
             changed, gate, posts, outcome, answer, lastDelivery, hourDeliveries,
             lastGap, resetBetween, capHour, deliveredHash>>
retryVars == <<attempt, rstate, tries, waits>>
hashVars == <<hashIn1, hashIn2, hashOut1, hashOut2>>
reconcileVars == <<request, stop_info_cache, result, previous_result, gather>>
pureVars == <<hashVars, reconcileVars>>
vars == <<now, rate_limiter, last_prediction_hash, pc, debug_mode, webhook_url,
          changed, gate, posts, outcome, answer, lastDelivery, hourDeliveries,
          lastGap, resetBetween, capHour, deliveredHash, attempt, rstate, tries, waits,
          hashIn1, hashIn2, hashOut1, hashOut2, request, stop_info_cache, result,
          previous_result, gather>>

(***************************************************************************)
(* Program constants.                                                      *)
(***************************************************************************)
MaxUpdatesPerHour == 12
HourSeconds == 3600
MinIntervalSeconds == HourSeconds \div MaxUpdatesPerHour

(***************************************************************************)
(* Bounds of the model.                                                    *)
(***************************************************************************)
\* The --interval argument of cli.py: the sleep between two cycles. Every
\* duration of the model is a multiple of it.
Interval == 150
\* The clock stops advancing here.
MaxTime == 7200

\* Python's None in last_update_time, and in the history variables.
NoTime == -1
NoGap == NoTime
NoHour == NoTime
\* Python's None in _last_prediction_hash.
NoHash == <<<<NoTime>>>>

Min(a, b) == IF a <= b THEN a ELSE b

(***************************************************************************)
(* Predictions and their hash (models.Prediction, calculate_prediction_hash)*)
(* Strings are numbered so that the order of the numbers is the order of    *)
(* the strings: TimeNone is None, TimeEmpty is "", a larger number is an    *)
(* ISO timestamp.                                                           *)
(***************************************************************************)
TimeNone == 0
TimeEmpty == 1

Pred(r, s, d, a, dir, st) ==
    [route_id |-> r, stop_id |-> s, departure_time |-> d, arrival_time |-> a,
     direction_id |-> dir, status |-> st]

\* x or "": None and "" both give "".
OrEmpty(x) == IF x = TimeNone \/ x = TimeEmpty THEN TimeEmpty ELSE x

\* Mutant: a tuple that also holds the status.
PredTupleWithStatus(p) ==
    <<p.route_id, p.stop_id, OrEmpty(p.departure_time), OrEmpty(p.arrival_time),
      p.direction_id, p.status>>

PredTuple(p) ==
    <<p.route_id, p.stop_id, OrEmpty(p.departure_time), OrEmpty(p.arrival_time),
      p.direction_id>>

\* Python's order on tuples of equal length: lexicographic.
RECURSIVE TupleLess(_, _)
TupleLess(a, b) ==
    IF a = <<>> \/ b = <<>> THEN FALSE
    ELSE IF Head(a) # Head(b) THEN Head(a) < Head(b)
    ELSE TupleLess(Tail(a), Tail(b))

RECURSIVE InsertTuple(_, _)
InsertTuple(t, sorted) ==
    IF sorted = <<>> THEN <<t>>
    ELSE IF TupleLess(t, Head(sorted)) THEN <<t>> \o sorted
    ELSE <<Head(sorted)>> \o InsertTuple(t, Tail(sorted))

\* sorted([...]) of a list of tuples.
RECURSIVE SortTuples(_)
SortTuples(seq) ==
    IF seq = <<>> THEN <<>>
    ELSE InsertTuple(Head(seq), SortTuples(Tail(seq)))

\* Mutant: the hash of the tuples in the order of the input.
calculate_prediction_hash_unsorted(predictions) ==
    [i \in 1..Len(predictions) |-> PredTuple(predictions[i])]

\* hash(str(sorted tuples)): str is injective on such lists and the hash is taken
\* to be free of collisions, so the sorted list stands for its hash.
calculate_prediction_hash(predictions) ==
    SortTuples([i \in 1..Len(predictions) |-> PredTuple(predictions[i])])

PredA == Pred(1, 1, 2, TimeNone, 0, 0)
PredB == Pred(1, 2, 3, 3, 1, 0)
\* What fetch_predictions may return in a cycle.
Snapshots == {<<PredA>>, <<PredA, PredB>>, <<PredB, PredA>>}

(***************************************************************************)
(* TRMNLRateLimiter (src/mbta/display.py).                                 *)
(***************************************************************************)
\* now.replace(minute=0, second=0, microsecond=0)
CurrentHourStart(t) == (t \div HourSeconds) * HourSeconds

\* Mutant: a reset that keeps the time of the last update.
RolloverKeepsLastUpdate(lim, t) ==
    IF CurrentHourStart(t) > lim.hour_start
    THEN [lim EXCEPT !.updates_this_hour = 0, !.hour_start = CurrentHourStart(t)]
    ELSE lim

\* The first part of can_update: the reset on entering a new hour.
Rollover(lim, t) ==
    IF CurrentHourStart(t) > lim.hour_start
    THEN [updates_this_hour |-> 0, hour_start |-> CurrentHourStart(t),
          last_update_time |-> NoTime]
    ELSE lim

\* Mutant: can_update without the minimum interval check.
CanUpdateNoInterval(lim, t) ==
    Rollover(lim, t).updates_this_hour < MaxUpdatesPerHour

\* Mutant: can_update refusing also at exactly the minimum interval.
CanUpdateInclusive(lim, t) ==
    LET l == Rollover(lim, t) IN
    /\ l.updates_this_hour < MaxUpdatesPerHour
    /\ ~(l.last_update_time # NoTime /\ t - l.last_update_time <= MinIntervalSeconds)

\* Mutant: can_update that allows every update.
CanUpdateAlways(lim, t) == TRUE

\* The value can_update returns at time t.
CanUpdate(lim, t) ==
    LET l == Rollover(lim, t) IN
    IF l.updates_this_hour >= MaxUpdatesPerHour THEN FALSE
    ELSE IF l.last_update_time # NoTime /\ t - l.last_update_time < MinIntervalSeconds
         THEN FALSE
    ELSE TRUE

\* Mutant: record_update that forgets to count.
RecordUpdateKeepsCount(lim, t) == [lim EXCEPT !.last_update_time = t]

\* record_update at time t.
RecordUpdate(lim, t) ==
    [lim EXCEPT !.updates_this_hour = @ + 1, !.last_update_time = t]

\* TRMNLRateLimiter.__init__ at time t.
NewLimiter(t) ==
    [updates_this_hour |-> 0, hour_start |-> CurrentHourStart(t),
     last_update_time |-> NoTime]

(***************************************************************************)
(* The display sink's answers to a POST.                                   *)
(***************************************************************************)
NoHeader == "absent"
Response(st, ra) == [kind |-> "response", status |-> st, retry_after |-> ra]
TransportError == [kind |-> "exception", status |-> 0, retry_after |-> NoHeader]
NoAnswer == [kind |-> "none", status |-> 0, retry_after |-> NoHeader]
IsStatus(r, st) == r.kind = "response" /\ r.status = st

\* Answers the sink gives to the rate-limited publisher of display.py, which
\* reads the Retry-After header for its log message only.
DisplayAnswers ==
    {Response(200, NoHeader), Response(204, NoHeader), Response(429, NoHeader),
     Response(500, NoHeader), TransportError}

\* How update_trmnl_display of display.py ends for an answer of the sink.
AnswerOutcome(r) ==
    IF r.kind = "exception" THEN "exception"
    ELSE IF r.status = 200 THEN "delivered"
    ELSE IF r.status = 429 THEN "sink_429"
    ELSE "sink_error"

\* TRMNL_WEBHOOK_URL: unset or empty, without http(s) scheme, well formed.
WebhookUrls == {"", "ftp://trmnl", "https://trmnl"}
\* Mutant: url checks that accept any scheme.
UrlOutcomeAnyScheme(url) == IF url = "" THEN "no_url" ELSE "ok"

\* The url checks of update_trmnl_display (display.py).
UrlOutcome(url) ==
    IF url = "" THEN "no_url"
    ELSE IF url # "https://trmnl" THEN "bad_url"
    ELSE "ok"

\* A POST takes less than a tick of the clock, or one tick.
PostDelays == {0, Interval}

(***************************************************************************)
(* The poll loop of cli.py with display.update_trmnl_display.              *)
(***************************************************************************)
\* What process_predictions has returned: nothing yet, or an exception.
NotRunResult ==
    [raised |-> FALSE, done |-> FALSE, stop_names |-> <<>>, stop_predictions |-> <<>>]
RaisedResult ==
    [raised |-> TRUE, done |-> TRUE, stop_names |-> <<>>, stop_predictions |-> <<>>]

\* The answer of a request to the MBTA API for a list: the list with status
\* 200 ("ok"), another status ("status"), or an exception ("raise").
ListAnswer(kind, data) == [kind |-> kind, data |-> data]

\* No gather of stop lookups has been started.
NoGather ==
    [round |-> 0, stop_ids |-> <<>>, stop_api |-> <<>>, before |-> <<>>, lookups |-> <<>>]

NoRequest ==
    [route_id |-> "", predictions |-> <<>>, schedule |-> ListAnswer("status", <<>>),
     stop_api |-> <<>>, route_stops |-> ListAnswer("status", <<>>),
     current_time |-> NoTime]

\* No call of process_predictions: no request, an empty cache, no result.
ReconcileIdle ==
    /\ request = NoRequest
    /\ stop_info_cache = <<>>
    /\ result = NotRunResult
    /\ previous_result = NotRunResult
    /\ gather = NoGather

HashIdle ==
    /\ hashIn1 = <<>>
    /\ hashIn2 = <<>>
    /\ hashOut1 = NoHash
    /\ hashOut2 = NoHash

RetryIdle ==
    /\ attempt = 0
    /\ rstate = "Idle"
    /\ tries = <<>>
    /\ waits = <<>>

Init ==
    /\ now = 0
    /\ rate_limiter = NewLimiter(0)
    /\ last_prediction_hash = NoHash
    /\ pc = "fetching"
    /\ debug_mode \in BOOLEAN
    /\ webhook_url \in WebhookUrls
    /\ changed = FALSE
    /\ gate = "none"
    /\ posts = 0
    /\ outcome = "none"
    /\ answer = NoAnswer
    /\ lastDelivery = NoTime
    /\ hourDeliveries = 0
    /\ lastGap = NoGap
    /\ resetBetween = FALSE
    /\ capHour = NoHour
    /\ deliveredHash = NoHash
    /\ RetryIdle
    /\ HashIdle
    /\ ReconcileIdle

history == <<lastDelivery, hourDeliveries, lastGap, resetBetween, capHour, deliveredHash>>
config == <<debug_mode, webhook_url>>

\* Mutant: a loop in which an exception of a cycle is not caught.
AfterExceptionCrashed == "crashed"

\* Where the loop is after an exception inside run_once: "except Exception" of
\* run_once logs it and returns, and update_loop goes on to asyncio.sleep.
AfterException == "sleeping"

\* run_once: fetch_predictions (or safe_load_config) raises; the except clause of
\* run_once logs and the cycle is over.
FetchRaise ==
    /\ pc = "fetching"
    /\ pc' = AfterException
    /\ outcome' = "fetch_error"
    /\ UNCHANGED <<now, rate_limiter, last_prediction_hash, changed, gate, posts, answer>>
    /\ UNCHANGED <<history, config, retryVars, pureVars>>

\* run_once: fetch_predictions returns, the hash is compared and recorded.
FetchReturn(predictions) ==
    /\ pc = "fetching"
    /\ LET prediction_hash == calculate_prediction_hash(predictions) IN
         IF prediction_hash # last_prediction_hash
         THEN /\ last_prediction_hash' = prediction_hash
              /\ changed' = TRUE
              /\ pc' = "processing"
              /\ outcome' = outcome
         ELSE /\ last_prediction_hash' = last_prediction_hash
              /\ changed' = FALSE
              /\ pc' = "report"
              /\ outcome' = "unchanged"
    /\ UNCHANGED <<now, rate_limiter, gate, posts, answer>>
    /\ UNCHANGED <<history, config, retryVars, pureVars>>

\* update_display: process_predictions raises; caught by run_once.
ProcessRaise ==
    /\ pc = "processing"
    /\ pc' = AfterException
    /\ outcome' = "process_error"
    /\ UNCHANGED <<now, rate_limiter, last_prediction_hash, changed, gate, posts, answer>>
    /\ UNCHANGED <<history, config, retryVars, pureVars>>

\* Mutant: update_trmnl_display that does not consult the rate limiter.
PublishDecisionUngated(template_exists, can, debug, url) ==
    IF ~template_exists THEN "no_template"
    ELSE IF debug THEN "debug"
    ELSE IF UrlOutcome(url) # "ok" THEN UrlOutcome(url)
    ELSE "post"

\* update_trmnl_display (display.py) up to the POST: the template check, the
\* rate limiter, debug mode, the url checks. can is what can_update() returned.
PublishDecision(template_exists, can, debug, url) ==
    IF ~template_exists THEN "no_template"
    ELSE IF ~can THEN "rate_limited"
    ELSE IF debug THEN "debug"
    ELSE IF UrlOutcome(url) # "ok" THEN UrlOutcome(url)
    ELSE "post"

Publish(template_exists) ==
    /\ pc = "processing"
    /\ LET can == CanUpdate(rate_limiter, now)
           decision == PublishDecision(template_exists, can, debug_mode, webhook_url)
       IN
       /\ IF template_exists
          THEN /\ rate_limiter' = Rollover(rate_limiter, now)
               /\ gate' = IF can THEN "true" ELSE "false"
          ELSE UNCHANGED <<rate_limiter, gate>>
       /\ IF decision = "post"
          THEN outcome' = outcome /\ pc' = "posting" /\ posts' = posts + 1
          ELSE outcome' = decision /\ pc' = "report" /\ posts' = posts
    /\ UNCHANGED <<now, last_prediction_hash, changed, answer>>
    /\ UNCHANGED <<history, config, retryVars, pureVars>>

\* Mutant: record_update() after every answer of the sink.
ShouldRecordAlways(r) == r.kind = "response"

\* if response.status == 200: ... _rate_limiter.record_update()
ShouldRecord(r) == IsStatus(r, 200)

\* The sink answers the POST of display.update_trmnl_display after d seconds.
PostRespond(r, d) ==
    /\ pc = "posting"
    /\ now + d <= MaxTime
    /\ now' = now + d
    /\ pc' = "report"
    /\ outcome' = AnswerOutcome(r)
    /\ answer' = r
    /\ IF ShouldRecord(r)
       THEN /\ rate_limiter' = RecordUpdate(rate_limiter, now')
            /\ lastDelivery' = now'
            /\ hourDeliveries' =
                   IF lastDelivery # NoTime
                      /\ CurrentHourStart(lastDelivery) = CurrentHourStart(now')
                   THEN hourDeliveries + 1 ELSE 1
            /\ lastGap' = IF lastDelivery = NoTime THEN NoGap
                          ELSE Min(now' - lastDelivery, MinIntervalSeconds)
            /\ resetBetween' =
                   (lastDelivery # NoTime /\ rate_limiter.last_update_time = NoTime)
            /\ capHour' =
                   IF rate_limiter'.updates_this_hour = MaxUpdatesPerHour
                   THEN CurrentHourStart(now') ELSE capHour
            /\ deliveredHash' = last_prediction_hash
       ELSE UNCHANGED <<rate_limiter, history>>
    /\ UNCHANGED <<last_prediction_hash, changed, gate, posts>>
    /\ UNCHANGED <<config, retryVars, pureVars>>

\* run_once: get_rate_limit_status() at the end of a cycle that did not raise;
\* it calls can_update().
Report ==
    /\ pc = "report"
    /\ rate_limiter' = Rollover(rate_limiter, now)
    /\ pc' = "sleeping"
    /\ UNCHANGED <<now, last_prediction_hash, changed, gate, posts, outcome, answer>>
    /\ UNCHANGED <<history, config, retryVars, pureVars>>

\* update_loop: asyncio.sleep(interval), then the next run_once starts.
Sleep ==
    /\ pc = "sleeping"
    /\ now + Interval <= MaxTime
    /\ now' = now + Interval
    /\ pc' = "fetching"
    /\ changed' = FALSE
    /\ gate' = "none"
    /\ posts' = 0
    /\ outcome' = "none"
    /\ answer' = NoAnswer
    /\ UNCHANGED <<rate_limiter, last_prediction_hash>>
    /\ UNCHANGED <<history, config, retryVars, pureVars>>

Next ==
    \/ FetchRaise
    \/ \E predictions \in Snapshots : FetchReturn(predictions)
    \/ ProcessRaise
    \/ \E template_exists \in BOOLEAN : Publish(template_exists)
    \/ \E r \in DisplayAnswers, d \in PostDelays : PostRespond(r, d)
    \/ Report
    \/ Sleep

Spec == Init /\ [][Next]_vars

(***************************************************************************)
(* update_trmnl_display of src/mbta/main.py: delivery with retry and        *)
(* exponential backoff, called once per cycle by update_display.            *)
(***************************************************************************)
BaseDelay == 1
MaxDelay == 900
MaxAttempts == 5

\* Values of the Retry-After header: absent, empty, not a number, numbers (the
\* last one an hour).
RetryAfterValues == {NoHeader, "", "soon", "0", "5", "3600"}

\* int(retry_after) succeeds.
ParsesAsInt(h) == h \in {"0", "5", "3600"}
\* int(retry_after)
IntOf(h) == IF h = "0" THEN 0 ELSE IF h = "5" THEN 5 ELSE 3600

\* The answers of the sink to the retrying publisher.
RetryAnswers ==
    {Response(200, NoHeader), Response(204, NoHeader), Response(500, NoHeader),
     TransportError}
    \cup {Response(429, h) : h \in RetryAfterValues}

\* Mutant: a delay growing linearly.
ExponentialDelayLinear(a) == Min(BaseDelay * (a + 1), MaxDelay)

\* min(base_delay * (2**attempt), max_delay)
ExponentialDelay(a) == Min(BaseDelay * (2 ^ a), MaxDelay)

\* Mutant: the Retry-After header is not read.
RateLimitDelayIgnoresHeader(h, a) == ExponentialDelay(a)

\* The delay computed for a 429 answer: the header if it is there and an
\* integer, the exponential delay otherwise.
RateLimitDelay(h, a) ==
    IF h # NoHeader /\ h # ""
    THEN IF ParsesAsInt(h) THEN IntOf(h) ELSE ExponentialDelay(a)
    ELSE ExponentialDelay(a)

\* The delay slept after answer r to attempt number a (counted from 0).
DelayFor(r, a) ==
    IF IsStatus(r, 429) THEN RateLimitDelay(r.retry_after, a) ELSE ExponentialDelay(a)

\* Mutant: the last retry is not preceded by a sleep.
WillRetryOneLess(a) == a < MaxAttempts - 2

\* if attempt < max_attempts - 1: only then the publisher sleeps.
WillRetry(a) == a < MaxAttempts - 1

\* Mutant: the attempt counter is not advanced.
NextAttemptStuck(a) == a

\* attempt += 1
NextAttempt(a) == a + 1

InitRetry ==
    /\ now = 0
    /\ rate_limiter = NewLimiter(0)
    /\ last_prediction_hash = NoHash
    /\ pc = "fetching"
    /\ debug_mode \in BOOLEAN
    /\ webhook_url \in {"", "https://trmnl"}
    /\ changed = FALSE
    /\ gate = "none"
    /\ posts = 0
    /\ outcome = "none"
    /\ answer = NoAnswer
    /\ lastDelivery = NoTime
    /\ hourDeliveries = 0
    /\ lastGap = NoGap
    /\ resetBetween = FALSE
    /\ capHour = NoHour
    /\ deliveredHash = NoHash
    /\ RetryIdle
    /\ HashIdle
    /\ ReconcileIdle

\* update_display and the entry of update_trmnl_display: without a webhook url
\* update_display raises; in debug mode the publisher prints and returns;
\* otherwise the retry loop starts with attempt = 0.
RetryCall ==
    /\ rstate \in {"Idle", "Succeeded", "Failed", "Debug", "Raised"}
    /\ attempt' = 0
    /\ tries' = <<>>
    /\ waits' = <<>>
    /\ rstate' = IF webhook_url = "" THEN "Raised"
                 ELSE IF debug_mode THEN "Debug"
                 ELSE "Attempting"
    /\ UNCHANGED <<cliVars, pureVars>>

\* Mutant: a publisher without the except clause around the POST.
PropagatesTransportError(r) == r.kind = "exception"

\* Which answers leave the while loop as an exception: none. A response with
\* any status is handled by the if/elif/else on response.status, and the
\* try block around the POST ends in "except Exception".
Propagates(r) == FALSE

\* One pass of the while loop up to its sleep: the POST and the answer r.
Attempt(r) ==
    /\ rstate = "Attempting"
    /\ attempt < MaxAttempts
    /\ tries' = Append(tries, r)
    /\ IF IsStatus(r, 200)
       THEN /\ rstate' = "Succeeded"
            /\ UNCHANGED <<attempt, waits>>
       ELSE IF Propagates(r)
       THEN /\ rstate' = "Raised"
            /\ UNCHANGED <<attempt, waits>>
       ELSE IF WillRetry(attempt)
       THEN /\ rstate' = "Backoff"
            /\ waits' = Append(waits, DelayFor(r, attempt))
            /\ attempt' = attempt
       ELSE /\ attempt' = NextAttempt(attempt)
            /\ rstate' = IF attempt' < MaxAttempts THEN "Attempting" ELSE "Failed"
            /\ waits' = waits
    /\ UNCHANGED <<cliVars, pureVars>>

\* asyncio.sleep(delay) returns; attempt += 1 and the loop condition.
BackoffDone ==
    /\ rstate = "Backoff"
    /\ attempt' = NextAttempt(attempt)
    /\ rstate' = IF attempt' < MaxAttempts THEN "Attempting" ELSE "Failed"
    /\ UNCHANGED <<tries, waits>>
    /\ UNCHANGED <<cliVars, pureVars>>

NextRetry ==
    \/ RetryCall
    \/ \E r \in RetryAnswers : Attempt(r)
    \/ BackoffDone

SpecRetry == InitRetry /\ [][NextRetry]_vars

\* Every request has a timeout and every sleep ends: a step that is possible
\* is eventually taken.
SpecRetryLive == SpecRetry /\ WF_vars(NextRetry)

(***************************************************************************)
(* Properties of the rate limited poll loop (specification Spec).          *)
(***************************************************************************)
\* can_update would refuse in limiter state lim at time t, lim being the state
\* after the rollover reset.
Blocked(lim, t) ==
    \/ lim.updates_this_hour >= MaxUpdatesPerHour
    \/ lim.last_update_time # NoTime /\ t - lim.last_update_time < MinIntervalSeconds

\* The limiter is still as the can_update() of update_trmnl_display left it.
GateFresh ==
    \/ pc = "posting"
    \/ pc = "report" /\ outcome \in {"rate_limited", "debug", "no_url", "bad_url"}

\* C1: the number of deliveries the sink answered with 200 within one clock hour
\* never exceeds the hourly cap of 12.
C1_DeliveriesPerClockHourWithinCap == hourDeliveries <= MaxUpdatesPerHour

C3_CapBlocksUntilNextHour ==
    /\ (capHour # NoHour /\ CurrentHourStart(now) = capHour)
          => ~CanUpdate(rate_limiter, now)
    /\ (rate_limiter.updates_this_hour >= MaxUpdatesPerHour
          /\ CurrentHourStart(now) > rate_limiter.hour_start)
          => CanUpdate(rate_limiter, now)

\* C4: can_update() returns false exactly when, after the rollover reset, the
\* count is at the cap or the last update is less than 300 seconds ago.
C4_CanUpdateDecision ==
    GateFresh => ((gate = "false") <=> Blocked(rate_limiter, now))

C4_Witness ==
    /\ GateFresh /\ gate = "false"
    /\ rate_limiter.updates_this_hour < MaxUpdatesPerHour
    /\ now - rate_limiter.last_update_time < MinIntervalSeconds

\* C5: a cycle in which can_update() returned false issues no POST; a POST is
\* issued only in a cycle whose data changed and whose can_update() returned true.
C5_PostOnlyWhenChangedAndPermitted ==
    /\ gate = "false" => (posts = 0 /\ pc # "posting")
    /\ (posts > 0 \/ pc = "posting") => (changed /\ gate = "true")

C5_Witness == pc = "report" /\ gate = "false" /\ changed /\ posts = 0

\* C6: updates_this_hour and last_update_time change only by record_update()
\* after a 200 answer, or by the hour-rollover reset; a cycle ending otherwise
\* leaves them alone.
C6_LimiterFrame ==
    [][(\/ rate_limiter'.updates_this_hour # rate_limiter.updates_this_hour
        \/ rate_limiter'.last_update_time # rate_limiter.last_update_time)
       => \/ /\ pc = "posting"
             /\ IsStatus(answer', 200)
             /\ rate_limiter' = RecordUpdate(rate_limiter, now')
          \/ /\ rate_limiter'.hour_start > rate_limiter.hour_start
             /\ rate_limiter'.updates_this_hour = 0
             /\ rate_limiter'.last_update_time = NoTime]_vars

C6_Witness ==
    /\ pc = "sleeping" /\ outcome = "sink_429"
    /\ rate_limiter.updates_this_hour > 0
    /\ rate_limiter.last_update_time < now

\* C7: an answer with any 2xx status ends the publisher successfully, with no
\* further attempt in the cycle and exactly one record_update().
C7_Any2xxRecordsOnce ==
    [][(pc = "posting" /\ answer'.kind = "response" /\ answer'.status \in 200..299)
       => /\ outcome' = "delivered"
          /\ pc' = "report"
          /\ posts' = 1
          /\ rate_limiter'.updates_this_hour = rate_limiter.updates_this_hour + 1]_vars

\* C7 (amended): an answer with status 200 ends the publisher of display.py
\* successfully, the cycle issues a single POST and calls record_update() once.
C7_Status200RecordsOnce ==
    /\ [](posts <= 1)
    /\ [][(pc = "posting" /\ IsStatus(answer', 200))
          => /\ outcome' = "delivered"
             /\ pc' = "report"
             /\ posts' = 1
             /\ rate_limiter'.updates_this_hour = rate_limiter.updates_this_hour + 1
             /\ rate_limiter'.last_update_time = now']_vars

C7_Witness ==
    /\ pc = "report" /\ IsStatus(answer, 200) /\ outcome = "delivered"
    /\ rate_limiter.updates_this_hour > 1

(***************************************************************************)
(* Properties of the retrying publisher (specifications SpecRetry,         *)
(* SpecRetryLive).                                                         *)
(***************************************************************************)
AllRateLimitedWithoutHeader ==
    \A i \in 1..Len(tries) : tries[i] = Response(429, NoHeader)

\* C8: a call makes at most 5 delivery attempts and, whatever the sink answers,
\* ends in Succeeded or in Failed; it does not stay in Attempting or Backoff.
C8_BoundedAttemptsAndTermination ==
    /\ [](Len(tries) <= MaxAttempts /\ attempt <= MaxAttempts)
    /\ [](rstate = "Failed" => Len(tries) = MaxAttempts)
    /\ (rstate \in {"Attempting", "Backoff"}) ~> (rstate \in {"Succeeded", "Failed"})

C8_Witness == rstate = "Failed" /\ Len(tries) = MaxAttempts /\ Len(waits) > 0

\* C9: when every attempt of a call is answered 429 without Retry-After, the
\* waits of the call are 1, 2, 4, 8, 16 seconds.
C9_FiveDoublingWaits ==
    (rstate = "Failed" /\ AllRateLimitedWithoutHeader) => waits = <<1, 2, 4, 8, 16>>

\* C9 (amended): when every attempt of a call is answered 429 without
\* Retry-After, the waits of the call are 1, 2, 4, 8 seconds: five attempts, and
\* no wait after the fifth.
C9_FourDoublingWaits ==
    /\ (rstate = "Failed" /\ AllRateLimitedWithoutHeader) => waits = <<1, 2, 4, 8>>
    /\ AllRateLimitedWithoutHeader =>
          \A i \in 1..Len(waits) : waits[i] = 2 ^ (i - 1)

C9_Witness ==
    rstate = "Failed" /\ AllRateLimitedWithoutHeader /\ Len(tries) = MaxAttempts

\* C10: when the k-th attempt is the first one answered 200, the call has made
\* exactly k attempts and k - 1 waits, none after the last attempt; 429 with
\* Retry-After 5 and then 200 give one wait of 5 seconds and two attempts.
C10_WaitsUntilFirstSuccess ==
    /\ \A i \in 1..Len(tries) :
          IsStatus(tries[i], 200) => (i = Len(tries) /\ rstate = "Succeeded")
    /\ rstate = "Succeeded" =>
          /\ Len(tries) >= 1 /\ IsStatus(tries[Len(tries)], 200)
          /\ Len(waits) = Len(tries) - 1
    /\ (Len(tries) >= 1 /\ tries[1] = Response(429, "5")
          /\ (rstate = "Backoff" \/ Len(tries) >= 2))
          => waits[1] = 5
    /\ (rstate = "Succeeded" /\ tries = <<Response(429, "5"), Response(200, NoHeader)>>)
          => waits = <<5>>

C10_Witness ==
    rstate = "Succeeded" /\ tries = <<Response(429, "5"), Response(200, NoHeader)>>

\* C11: in the retry publisher an answer 429, any other answer that is not
\* 200 and a transport exception never leave the publisher as an exception:
\* while attempts remain the next step is the backoff sleep followed by the
\* next attempt, and after the last attempt the call has returned as Failed.
FailedTry(r) == ~IsStatus(r, 200)

C11_FailuresRetriedNeverRaised ==
    [][/\ (rstate \in {"Attempting", "Backoff"}
             => rstate' \in {"Attempting", "Backoff", "Succeeded", "Failed"})
       /\ (rstate = "Attempting" /\ Len(tries') = Len(tries) + 1
             /\ FailedTry(tries'[Len(tries')])
             => IF attempt < MaxAttempts - 1
                THEN rstate' = "Backoff" /\ attempt' = attempt
                ELSE rstate' = "Failed")
       /\ (rstate = "Backoff"
             => rstate' = "Attempting" /\ attempt' = attempt + 1
                /\ attempt' < MaxAttempts)]_vars

C11_Witness ==
    /\ rstate = "Failed"
    /\ Len(tries) = MaxAttempts
    /\ \E i \in 1..Len(tries) : tries[i] = TransportError
    /\ \E i \in 1..Len(tries) : IsStatus(tries[i], 429)
    /\ \E i \in 1..Len(tries) : IsStatus(tries[i], 500)

(***************************************************************************)
(* calculate_prediction_hash applied to two lists of predictions            *)
(* (specification SpecHash).                                               *)
(***************************************************************************)
\* Longest list of predictions handed to the function.
MaxSnapshotLen == 2

\* Predictions that differ from the first one in a single field; the third
\* and the fourth differ from each other as None differs from "".
HashPool ==
    {Pred(1, 1, 2, 3, 0, 0), Pred(1, 2, 2, 3, 0, 0), Pred(1, 1, TimeNone, 3, 0, 0),
     Pred(1, 1, TimeEmpty, 3, 0, 0), Pred(1, 1, 2, TimeNone, 0, 0),
     Pred(1, 1, 2, 3, 1, 0), Pred(1, 1, 2, 3, 0, 1)}

SnapshotLists == UNION {[1..n -> HashPool] : n \in 0..MaxSnapshotLen}

\* The two lists are the inputs; the rest of the program is idle.
InitHash ==
    /\ now = 0
    /\ rate_limiter = NewLimiter(0)
    /\ last_prediction_hash = NoHash
    /\ pc = "fetching"
    /\ debug_mode = FALSE
    /\ webhook_url = ""
    /\ changed = FALSE
    /\ gate = "none"
    /\ posts = 0
    /\ outcome = "none"
    /\ answer = NoAnswer
    /\ lastDelivery = NoTime
    /\ hourDeliveries = 0
    /\ lastGap = NoGap
    /\ resetBetween = FALSE
    /\ capHour = NoHour
    /\ deliveredHash = NoHash
    /\ RetryIdle
    /\ hashIn1 \in SnapshotLists
    /\ hashIn2 \in SnapshotLists
    /\ hashOut1 = NoHash
    /\ hashOut2 = NoHash
    /\ ReconcileIdle

\* The function is called on both lists.
HashSnapshots ==
    /\ hashOut1 = NoHash
    /\ hashOut1' = calculate_prediction_hash(hashIn1)
    /\ hashOut2' = calculate_prediction_hash(hashIn2)
    /\ UNCHANGED <<hashIn1, hashIn2, cliVars, retryVars, reconcileVars>>

NextHash == HashSnapshots

SpecHash == InitHash /\ [][NextHash]_vars

(***************************************************************************)
(* Timestamps of display.process_predictions. An aware datetime is the     *)
(* record of its instant t, in seconds since some midnight UTC, and of its *)
(* UTC offset off in seconds. A display string "%I:%M %p" is the triple of *)
(* its hour field, its minute field and 0 for AM, 1 for PM: the order of   *)
(* the triples is the order of the strings.                                *)
(***************************************************************************)
DaySeconds == 86400
MinuteSeconds == 60
HalfDayHours == 12
\* The offset -04:00 of the timestamps of the MBTA API.
Boston == 0 - 4 * HourSeconds
Utc == 0

\* The aware datetime of second s of minute m of hour h of day d at offset off.
At(d, h, m, sec, off) ==
    [t |-> d * DaySeconds + h * HourSeconds + m * MinuteSeconds + sec - off,
     off |-> off]

\* None or "" in a time field.
NoDatetime == [t |-> NoTime, off |-> Utc]
IsTime(dt) == dt.t # NoTime

LocalSeconds(dt) == dt.t + dt.off
DayOf(dt) == LocalSeconds(dt) \div DaySeconds
SecondOfDay(dt) == LocalSeconds(dt) % DaySeconds

\* dt.strftime("%I:%M %p")
strftime(dt) ==
    LET h == SecondOfDay(dt) \div HourSeconds
        m == (SecondOfDay(dt) % HourSeconds) \div MinuteSeconds
    IN <<IF h % HalfDayHours = 0 THEN HalfDayHours ELSE h % HalfDayHours,
         m,
         IF h < HalfDayHours THEN 0 ELSE 1>>

\* datetime.strptime(time_str, "%I:%M %p"): a naive datetime on 1900-01-01,
\* given here as its second of the day.
strptime(time_str) ==
    ((time_str[1] % HalfDayHours) + HalfDayHours * time_str[3]) * HourSeconds
    + time_str[2] * MinuteSeconds

\* Mutant: the parsed time keeps the date of the first scheduled departure but
\* loses its hour.
ReplaceDateLosingHour(second_of_day, scheduled_dt) ==
    [t |-> DayOf(scheduled_dt) * DaySeconds + (second_of_day % HourSeconds)
           - scheduled_dt.off,
     off |-> scheduled_dt.off]

\* time_obj.replace(year=, month=, day=, tzinfo=) with the fields of scheduled_dt.
ReplaceDate(second_of_day, scheduled_dt) ==
    [t |-> DayOf(scheduled_dt) * DaySeconds + second_of_day - scheduled_dt.off,
     off |-> scheduled_dt.off]

(***************************************************************************)
(* display.process_predictions: stop names, the stop order and the          *)
(* grouping of the live predictions.                                       *)
(***************************************************************************)
MAX_PREDICTIONS_PER_DIRECTION == 3
\* ordered_stops[:12]
MaxStops == 12

STOP_ORDER ==
    [Orange |-> <<"Oak Grove", "Malden Center", "Wellington", "Assembly",
                  "Sullivan Square", "Community College", "North Station",
                  "Haymarket", "State", "Downtown Crossing", "Chinatown",
                  "Tufts Medical Center", "Back Bay", "Massachusetts Avenue",
                  "Ruggles", "Roxbury Crossing", "Jackson Square", "Stony Brook",
                  "Green Street", "Forest Hills">>,
     Red |-> <<"Alewife", "Davis", "Porter", "Harvard", "Central", "Kendall/MIT",
               "Charles/MGH", "Park Street", "Downtown Crossing", "South Station",
               "Broadway", "Andrew", "JFK/UMass", "Savin Hill", "Fields Corner",
               "Shawmut", "Ashmont", "North Quincy", "Wollaston", "Quincy Center",
               "Quincy Adams", "Braintree">>,
     Blue |-> <<"Wonderland", "Revere Beach", "Beachmont", "Suffolk Downs",
                "Orient Heights", "Wood Island", "Airport", "Maverick", "Bowdoin",
                "Government Center", "State", "Aquarium", "Maverick">>]

UnknownStop == "Unknown Stop"

\* The stop ids of the model and the names the MBTA API has for them: two
\* platforms of State, one of Malden Center, and a stop that is on no subway
\* line.
StopIds == {"st-1", "st-2", "mc-1", "xx-9"}
ApiStopName(stop_id) ==
    CASE stop_id \in {"st-1", "st-2"} -> "State"
      [] stop_id = "mc-1" -> "Malden Center"
      [] OTHER -> "Nubian"

\* _stop_info_cache.get(stop_id, "Unknown Stop")
CacheGet(cache, stop_id) ==
    IF stop_id \in DOMAIN cache THEN cache[stop_id] ELSE UnknownStop

\* What GET /stops/{id} does for each id: "ok" is status 200 with the name,
\* "status" is any other status, "raise" is a timeout or a connection error.
StopAnswerKinds == {"ok", "status", "raise"}

\* Mutant: the id of a failed request is stored like that of a status other
\* than 200.
CacheAfterStopInfoKeepsFailure(cache, stop_id, stop_api) ==
    IF stop_id \in DOMAIN cache THEN cache
    ELSE [i \in DOMAIN cache \cup {stop_id} |->
            IF i # stop_id THEN cache[i]
            ELSE IF stop_api[stop_id] = "ok" THEN ApiStopName(stop_id) ELSE stop_id]

\* get_stop_info(stop_id) raises: the id is not cached and the request fails.
StopInfoRaises(cache, stop_id, stop_api) ==
    stop_id \notin DOMAIN cache /\ stop_api[stop_id] = "raise"

\* The cache after get_stop_info(stop_id): a cached id is left alone, status
\* 200 stores the name, another status stores the id itself, an exception
\* stores nothing.
CacheAfterStopInfo(cache, stop_id, stop_api) ==
    IF stop_id \in DOMAIN cache \/ stop_api[stop_id] = "raise" THEN cache
    ELSE [i \in DOMAIN cache \cup {stop_id} |->
            IF i # stop_id THEN cache[i]
            ELSE IF stop_api[stop_id] = "ok" THEN ApiStopName(stop_id) ELSE stop_id]

\* The cache after asyncio.gather(*[get_stop_info(id) for id in ids]).
RECURSIVE CacheAfterGather(_, _, _)
CacheAfterGather(cache, ids, stop_api) ==
    IF ids = {} THEN cache
    ELSE LET stop_id == CHOOSE i \in ids : TRUE IN
         CacheAfterGather(CacheAfterStopInfo(cache, stop_id, stop_api),
                          ids \ {stop_id}, stop_api)

GatherRaises(cache, ids, stop_api) ==
    \E stop_id \in ids : StopInfoRaises(cache, stop_id, stop_api)

\* Mutant: the direction names exchanged.
DirectionOfSwapped(direction_id) == IF direction_id = 0 THEN "inbound" ELSE "outbound"

\* "outbound" if direction_id == 0 else "inbound"
DirectionOf(direction_id) == IF direction_id = 0 THEN "outbound" ELSE "inbound"

\* pred.departure_time or pred.arrival_time
DepartureOf(pred) ==
    IF IsTime(pred.departure_time) THEN pred.departure_time ELSE pred.arrival_time

\* The entries of stop_times[stop_name][direction], in the order of the
\* predictions: the display string, with the timestamp it was made from.
RECURSIVE GroupedTimes(_, _, _, _)
GroupedTimes(predictions, cache, stop_name, direction) ==
    IF predictions = <<>> THEN <<>>
    ELSE LET pred == Head(predictions)
             departure == DepartureOf(pred)
             rest == GroupedTimes(Tail(predictions), cache, stop_name, direction)
         IN IF /\ IsTime(departure)
               /\ CacheGet(cache, pred.stop_id) # UnknownStop
               /\ CacheGet(cache, pred.stop_id) = stop_name
               /\ DirectionOf(pred.direction_id) = direction
            THEN <<[time_str |-> strftime(departure), own |-> departure,
                    live |-> TRUE]>> \o rest
            ELSE rest

(***************************************************************************)
(* display.process_predictions: the times of one stop and direction.        *)
(***************************************************************************)
\* scheduled_times is not empty and its first entry has a departure time: the
\* date and the offset of that entry are given to every parsed live time.
HasFirstScheduled(scheduled_times) ==
    scheduled_times # <<>> /\ IsTime(scheduled_times[1].departure_time)

\* Without it time_obj stays naive, and "time_obj <= current_time" with the
\* aware current_time is a TypeError, which "except ValueError" does not catch.
ComparisonRaises(times, scheduled_times) ==
    ~HasFirstScheduled(scheduled_times) /\ times # <<>>

\* Mutant: no display string counts as seen.
SeenNever(time_str, seen_times) == FALSE

\* time_str in seen_times
Seen(time_str, seen_times) == time_str \in seen_times

\* The loop over stop_times[stop_name][direction]: parse the display string,
\* give it the date of the first scheduled departure, drop what is not later
\* than current_time and what was seen.
RECURSIVE RealTimes(_, _, _, _)
RealTimes(times, seen_times, first_scheduled, current_time) ==
    IF times = <<>> THEN <<>>
    ELSE LET e == Head(times)
             time_obj == ReplaceDate(strptime(e.time_str), first_scheduled)
         IN IF time_obj.t <= current_time \/ Seen(e.time_str, seen_times)
            THEN RealTimes(Tail(times), seen_times, first_scheduled, current_time)
            ELSE <<[time_str |-> e.time_str, own |-> e.own, live |-> TRUE,
                    obj |-> time_obj]>>
                 \o RealTimes(Tail(times), seen_times \cup {e.time_str},
                              first_scheduled, current_time)

\* Mutant: entries ordered by their display strings.
RECURSIVE InsertByObjLexical(_, _)
InsertByObjLexical(e, sorted) ==
    IF sorted = <<>> THEN <<e>>
    ELSE IF TupleLess(e.time_str, Head(sorted).time_str) THEN <<e>> \o sorted
    ELSE <<Head(sorted)>> \o InsertByObjLexical(e, Tail(sorted))

\* sorted(..., key=lambda x: x[0]): by the datetime, equal keys in the order
\* of the input.
RECURSIVE InsertByObj(_, _)
InsertByObj(e, sorted) ==
    IF sorted = <<>> THEN <<e>>
    ELSE IF e.obj.t < Head(sorted).obj.t THEN <<e>> \o sorted
    ELSE <<Head(sorted)>> \o InsertByObj(e, Tail(sorted))

RECURSIVE SortByObj(_)
SortByObj(seq) ==
    IF seq = <<>> THEN <<>>
    ELSE InsertByObj(seq[Len(seq)], SortByObj(SubSeq(seq, 1, Len(seq) - 1)))

TimeStrings(entries) == {entries[i].time_str : i \in 1..Len(entries)}

\* The loop over scheduled_times for one stop and direction; latest is the
\* datetime of the last live entry, or NoDatetime.
RECURSIVE ScheduledTimes(_, _, _, _, _, _, _)
ScheduledTimes(scheduled_times, seen_times, cache, stop_name, direction, current_time, latest) ==
    IF scheduled_times = <<>> THEN <<>>
    ELSE LET schedule == Head(scheduled_times)
             dt == schedule.departure_time
             time_str == strftime(dt)
             taken == /\ IsTime(dt)
                      /\ CacheGet(cache, schedule.stop_id) = stop_name
                      /\ DirectionOf(schedule.direction_id) = direction
                      /\ ~Seen(time_str, seen_times)
                      /\ dt.t > current_time
                      /\ (~IsTime(latest) \/ dt.t > latest.t)
         IN IF taken
            THEN <<[time_str |-> time_str, own |-> dt, live |-> FALSE, obj |-> dt]>>
                 \o ScheduledTimes(Tail(scheduled_times), seen_times \cup {time_str},
                                   cache, stop_name, direction, current_time, latest)
            ELSE ScheduledTimes(Tail(scheduled_times), seen_times, cache, stop_name,
                                direction, current_time, latest)

Prefix(seq, n) == SubSeq(seq, 1, Min(n, Len(seq)))

\* Mutant: every live and every scheduled entry is kept.
CombinedUncapped(real_times_sorted, scheduled_times_sorted) ==
    real_times_sorted \o scheduled_times_sorted

\* combined, filled up with scheduled entries and cut at the maximum.
Combined(real_times_sorted, scheduled_times_sorted) ==
    LET fill == IF Len(real_times_sorted) < MAX_PREDICTIONS_PER_DIRECTION
                THEN Prefix(scheduled_times_sorted,
                            MAX_PREDICTIONS_PER_DIRECTION - Len(real_times_sorted))
                ELSE <<>>
    IN Prefix(real_times_sorted \o fill, MAX_PREDICTIONS_PER_DIRECTION)

\* latest_real_time: the datetime of the last sorted live entry, or None.
LatestRealTime(real_times_sorted) ==
    IF real_times_sorted = <<>> THEN NoDatetime
    ELSE real_times_sorted[Len(real_times_sorted)].obj

\* The second half of the loop body: the scheduled entries that follow the
\* sorted live entries, and the combined list.
WithScheduled(real_times_sorted, scheduled_times, cache, stop_name, direction, current_time) ==
    Combined(real_times_sorted,
             SortByObj(ScheduledTimes(scheduled_times, TimeStrings(real_times_sorted),
                                      cache, stop_name, direction, current_time,
                                      LatestRealTime(real_times_sorted))))

\* The first half of the loop body: the live entries of the stop and
\* direction that are kept.
KeptRealTimes(times, scheduled_times, current_time) ==
    IF times = <<>> THEN <<>>
    ELSE RealTimes(times, {}, scheduled_times[1].departure_time, current_time)

\* stop_predictions[stop_id][direction] for the stop called stop_name.
DirectionTimes(predictions, scheduled_times, cache, stop_name, direction, current_time) ==
    WithScheduled(
        SortByObj(KeptRealTimes(GroupedTimes(predictions, cache, stop_name, direction),
                                scheduled_times, current_time)),
        scheduled_times, cache, stop_name, direction, current_time)

(***************************************************************************)
(* display.process_predictions as a whole.                                 *)
(***************************************************************************)
StopIdsOf(items) == {items[i].stop_id : i \in 1..Len(items)}

\* The names get_bus_stop_order collects from the ids of get_route_stops, one
\* get_stop_info after the other.
RECURSIVE BusStopNames(_, _, _)
BusStopNames(stops, cache, stop_api) ==
    IF stops = <<>> THEN <<>>
    ELSE LET after == CacheAfterStopInfo(cache, Head(stops), stop_api)
             stop_name == CacheGet(after, Head(stops))
         IN (IF stop_name # UnknownStop THEN <<stop_name>> ELSE <<>>)
            \o BusStopNames(Tail(stops), after, stop_api)

RECURSIVE CacheAfterBusStops(_, _, _)
CacheAfterBusStops(stops, cache, stop_api) ==
    IF stops = <<>> \/ StopInfoRaises(cache, Head(stops), stop_api) THEN cache
    ELSE CacheAfterBusStops(Tail(stops),
                            CacheAfterStopInfo(cache, Head(stops), stop_api), stop_api)

RECURSIVE BusStopsRaise(_, _, _)
BusStopsRaise(stops, cache, stop_api) ==
    /\ stops # <<>>
    /\ \/ StopInfoRaises(cache, Head(stops), stop_api)
       \/ BusStopsRaise(Tail(stops),
                        CacheAfterStopInfo(cache, Head(stops), stop_api), stop_api)

\* Mutant: a failed stop lookup is passed over and the other names are kept.
get_bus_stop_order_keeps_names(route_stops, cache, stop_api) ==
    IF route_stops.kind # "ok" THEN <<>>
    ELSE BusStopNames(route_stops.data, cache, stop_api)

\* get_bus_stop_order: any exception gives the empty list.
get_bus_stop_order(route_stops, cache, stop_api) ==
    IF route_stops.kind # "ok" \/ BusStopsRaise(route_stops.data, cache, stop_api)
    THEN <<>>
    ELSE BusStopNames(route_stops.data, cache, stop_api)

\* Mutant: every name of the stop order is shown.
ShownStopsAll(ordered_stops) == ordered_stops

\* ordered_stops[:12]
ShownStops(ordered_stops) == Prefix(ordered_stops, MaxStops)

Directions == {"inbound", "outbound"}

\* The loop over ordered_stops[:12]: a TypeError of a comparison ends the
\* call, otherwise position i of stop_names and of stop_predictions is the
\* key "stop_<i-1>".
StopsLoop(predictions, scheduled_times, cache, shown, current_time) ==
    IF \E i \in 1..Len(shown), direction \in Directions :
          ComparisonRaises(GroupedTimes(predictions, cache, shown[i], direction),
                           scheduled_times)
    THEN RaisedResult
    ELSE [raised |-> FALSE, done |-> TRUE, stop_names |-> shown,
          stop_predictions |->
              [i \in 1..Len(shown) |->
                  [direction \in Directions |->
                      DirectionTimes(predictions, scheduled_times, cache, shown[i],
                                     direction, current_time)]]]

\* From "Get the ordered stops for this route" on, with the cache as the
\* lookups for the predictions and for the schedule left it.
FromStopOrder(req, route_id, scheduled_times, cache) ==
    IF route_id \in DOMAIN STOP_ORDER
    THEN [cache |-> cache,
          result |-> StopsLoop(req.predictions, scheduled_times, cache,
                               ShownStops(STOP_ORDER[route_id]), req.current_time)]
    ELSE LET after == IF req.route_stops.kind # "ok" THEN cache
                      ELSE CacheAfterBusStops(req.route_stops.data, cache, req.stop_api)
         IN [cache |-> after,
             result |-> StopsLoop(req.predictions, scheduled_times, after,
                                  ShownStops(get_bus_stop_order(req.route_stops, cache,
                                                                req.stop_api)),
                                  req.current_time)]

\* From get_scheduled_times(route_id) on, with the cache as the lookups for the
\* predictions left it: an exception of the schedule request or of a stop
\* lookup for the schedule ends the call.
FromSchedule(req, route_id, scheduled_times, cache) ==
    IF req.schedule.kind = "raise" THEN [cache |-> cache, result |-> RaisedResult]
    ELSE IF GatherRaises(cache, StopIdsOf(scheduled_times), req.stop_api)
    THEN [cache |-> CacheAfterGather(cache, StopIdsOf(scheduled_times), req.stop_api),
          result |-> RaisedResult]
    ELSE FromStopOrder(req, route_id, scheduled_times,
                       CacheAfterGather(cache, StopIdsOf(scheduled_times),
                                        req.stop_api))

\* process_predictions(predictions) with the answers req of the MBTA API and the
\* wall clock: the cache it leaves and what it returns.
process_predictions(req, cache) ==
    FromSchedule(req,
                 IF req.predictions # <<>> THEN req.predictions[1].route_id
                 ELSE "Orange",
                 IF req.schedule.kind = "ok" THEN req.schedule.data ELSE <<>>,
                 IF req.predictions # <<>>
                 THEN CacheAfterGather(cache, StopIdsOf(req.predictions), req.stop_api)
                 ELSE cache)

(***************************************************************************)
(* One call of process_predictions on a fresh process                       *)
(* (specification SpecReconcile).                                          *)
(***************************************************************************)
\* Largest number of live predictions and of scheduled departures in a call.
MaxLive == 4
MaxSched == 2

\* The wall clock of the call: 10:05 and 23:40 on day 1 and 00:05 on day 2,
\* Boston time.
NowValues ==
    {At(1, 10, 5, 0, Boston).t, At(1, 23, 40, 0, Boston).t, At(2, 0, 5, 0, Boston).t}

Live(stop_id, departure_time, arrival_time, direction_id) ==
    Pred("", stop_id, departure_time, arrival_time, direction_id, 0)

\* Live predictions: at State outbound at 10:30:10, 10:39, 10:30:50 and 13:05
\* and 23:58 of day 1 and at 00:10 of day 2; one given as 14:20 UTC of day 1;
\* one at Malden Center inbound with an arrival time only.
LivePool ==
    <<Live("st-1", At(1, 10, 30, 10, Boston), At(1, 10, 30, 0, Boston), 0),
      Live("st-1", At(1, 10, 39, 0, Boston), NoDatetime, 0),
      Live("st-1", At(1, 10, 30, 50, Boston), NoDatetime, 0),
      Live("st-1", At(1, 13, 5, 0, Boston), NoDatetime, 0),
      Live("st-1", At(1, 23, 58, 0, Boston), NoDatetime, 0),
      Live("st-1", At(2, 0, 10, 0, Boston), NoDatetime, 0),
      Live("st-1", At(1, 14, 20, 0, Utc), NoDatetime, 0),
      Live("mc-1", NoDatetime, At(1, 10, 45, 0, Boston), 1)>>

\* An entry of get_scheduled_times: stop_name is the name of the stop among
\* the included stops of the answer.
Scheduled(stop_id, departure_time, direction_id) ==
    [stop_id |-> stop_id, departure_time |-> departure_time,
     direction_id |-> direction_id, stop_name |-> ApiStopName(stop_id)]

\* An entry whose stop is not among the included stops of the answer.
Unnamed(schedule) == [schedule EXCEPT !.stop_name = UnknownStop]

\* Scheduled departures: at State outbound at 10:00 and 11:30 of day 1, at the
\* other platform at 10:39, at 05:00 of day 2, one without a departure time
\* (the last stop of a trip), and one at Malden Center inbound.
SchedPool ==
    <<Scheduled("st-1", At(1, 10, 0, 0, Boston), 0),
      Scheduled("st-1", At(1, 11, 30, 0, Boston), 0),
      Scheduled("st-2", At(1, 10, 39, 0, Boston), 0),
      Scheduled("st-1", At(2, 5, 0, 0, Boston), 0),
      Scheduled("st-1", NoDatetime, 0),
      Scheduled("mc-1", At(1, 10, 15, 0, Boston), 1)>>

\* The entries of pool at the positions in chosen, in the order of the pool.
RECURSIVE Pick(_, _, _)
Pick(pool, chosen, from) ==
    IF from > Len(pool) THEN <<>>
    ELSE (IF from \in chosen THEN <<pool[from]>> ELSE <<>>)
         \o Pick(pool, chosen, from + 1)

\* fetch_predictions(route_id): every prediction is of the route asked for.
OfRoute(predictions, route_id) ==
    [i \in 1..Len(predictions) |-> [predictions[i] EXCEPT !.route_id = route_id]]

LiveLists(n) ==
    {Pick(LivePool, chosen, 1) :
        chosen \in {c \in SUBSET (1..Len(LivePool)) : Cardinality(c) <= n}}

\* Lists of distinct scheduled departures: any of them first (its date is the
\* one given to the live times), the others in the order of the pool.
SchedLists ==
    {<<>>} \cup
    UNION {{<<SchedPool[first]>> \o Pick(SchedPool, chosen \ {first}, 1) :
              first \in chosen} :
           chosen \in {c \in SUBSET (1..Len(SchedPool)) :
                          Cardinality(c) \in 1..MaxSched}}

AllOk == [stop_id \in StopIds |-> "ok"]

\* Calls on the Orange line with every stop lookup answered 200: the live
\* predictions, the scheduled departures and the wall clock vary.
TimeRequests ==
    {[route_id |-> "Orange", predictions |-> OfRoute(live, "Orange"),
      schedule |-> ListAnswer("ok", sched),
      stop_api |-> AllOk, route_stops |-> ListAnswer("status", <<>>),
      current_time |-> t] :
        live \in LiveLists(MaxLive), sched \in SchedLists, t \in NowValues}

\* Stop lookups of which at most one is not answered 200.
StopApis ==
    {AllOk} \cup {[AllOk EXCEPT ![stop_id] = kind] :
                     stop_id \in StopIds, kind \in {"status", "raise"}}

Routes == {"Orange", "Blue", "1"}
RouteStopsAnswers ==
    {ListAnswer("raise", <<>>), ListAnswer("status", <<>>),
     ListAnswer("ok", <<"st-1", "mc-1">>), ListAnswer("ok", <<"xx-9", "st-2">>)}
ScheduleAnswers ==
    {ListAnswer("raise", <<>>), ListAnswer("status", <<>>),
     ListAnswer("ok", <<SchedPool[2], SchedPool[3]>>),
     ListAnswer("ok", <<SchedPool[6], SchedPool[1]>>),
     ListAnswer("ok", <<Unnamed(SchedPool[3]), SchedPool[2]>>)}
FewLive ==
    LiveLists(1) \cup {<<LivePool[2], Live("xx-9", At(1, 10, 31, 0, Boston), NoDatetime, 0)>>}

\* Calls at 10:05 in which the route, the answers of the MBTA API to the
\* schedule, stop and route-stops requests vary.
AnswerRequests ==
    {[route_id |-> route_id, predictions |-> OfRoute(live, route_id),
      schedule |-> schedule,
      stop_api |-> stop_api, route_stops |-> route_stops,
      current_time |-> At(1, 10, 5, 0, Boston).t] :
        live \in FewLive, route_id \in Routes, schedule \in ScheduleAnswers,
        stop_api \in StopApis, route_stops \in RouteStopsAnswers}

\* Scheduled departures of one morning in the order of the MBTA API
\* (sort=departure_time): at State outbound at 10:00, 10:15, 10:30 and 10:45,
\* one inbound at 10:20, and one from the other outbound platform at 10:30:40.
MorningSchedule ==
    <<Scheduled("st-1", At(1, 10, 0, 0, Boston), 0),
      Scheduled("st-1", At(1, 10, 15, 0, Boston), 0),
      Scheduled("st-1", At(1, 10, 20, 0, Boston), 1),
      Scheduled("st-1", At(1, 10, 30, 0, Boston), 0),
      Scheduled("st-2", At(1, 10, 30, 40, Boston), 0),
      Scheduled("st-1", At(1, 10, 45, 0, Boston), 0)>>

\* Calls on the Orange line without live predictions, at 09:40 and at 10:05:
\* the schedule is any part of the morning's departures.
ScheduleOnlyRequests ==
    {[route_id |-> "Orange", predictions |-> <<>>,
      schedule |-> ListAnswer("ok", Pick(MorningSchedule, chosen, 1)),
      stop_api |-> AllOk, route_stops |-> ListAnswer("status", <<>>),
      current_time |-> t] :
        chosen \in SUBSET (1..Len(MorningSchedule)),
        t \in {At(1, 9, 40, 0, Boston).t, At(1, 10, 5, 0, Boston).t}}

Requests == TimeRequests \cup AnswerRequests \cup ScheduleOnlyRequests

InitReconcile ==
    /\ now = 0
    /\ rate_limiter = NewLimiter(0)
    /\ last_prediction_hash = NoHash
    /\ pc = "fetching"
    /\ debug_mode = FALSE
    /\ webhook_url = ""
    /\ changed = FALSE
    /\ gate = "none"
    /\ posts = 0
    /\ outcome = "none"
    /\ answer = NoAnswer
    /\ lastDelivery = NoTime
    /\ hourDeliveries = 0
    /\ lastGap = NoGap
    /\ resetBetween = FALSE
    /\ capHour = NoHour
    /\ deliveredHash = NoHash
    /\ RetryIdle
    /\ HashIdle
    /\ request \in Requests
    /\ stop_info_cache = <<>>
    /\ result = NotRunResult
    /\ previous_result = NotRunResult
    /\ gather = NoGather

\* A call of process_predictions, and a second one with the same predictions,
\* the same answers of the MBTA API and the same wall clock, on the cache as
\* the first call left it.
ProcessPredictions ==
    /\ ~previous_result.done
    /\ \E call \in {process_predictions(request, stop_info_cache)} :
         /\ stop_info_cache' = call.cache
         /\ result' = call.result
    /\ previous_result' = result
    /\ UNCHANGED <<request, gather, cliVars, retryVars, hashVars>>

NextReconcile == ProcessPredictions

SpecReconcile == InitReconcile /\ [][NextReconcile]_vars

(***************************************************************************)
(* api.get_stop_info as the coroutines of one asyncio.gather: each lookup  *)
(* tests the cache, and on a miss awaits GET /stops/{id} and stores what   *)
(* the answer gives.  The lookups of a gather are suspended at the request *)
(* and resume in any order.  process_predictions runs one gather for the   *)
(* stops of the predictions and one for the stops of the schedule, and the *)
(* next cycle does the same on the cache as it is then.                    *)
(***************************************************************************)
MaxLookups == 2
MaxGathers == 2
LookupIds == {"st-1", "mc-1"}

NotCached == "not cached"
NoValue == "no value"

\* The lists of stop ids a gather is called with.
LookupLists == UNION {[1..n -> LookupIds] : n \in 1..MaxLookups}

\* A coroutine get_stop_info(stop_id) that has not run yet.
NewLookup(stop_id) ==
    [stop_id |-> stop_id, pc |-> "start", seen |-> NotCached, fetched |-> FALSE,
     value |-> NoValue]

\* Mutant: the test of the cache never finds an entry.
CachedNever(cache, stop_id) == FALSE

\* if stop_id in _stop_info_cache
Cached(cache, stop_id) == stop_id \in DOMAIN cache

\* Mutant: only the first lookup of a gather is answered as the API answers
\* for its stop, the others are answered with a status other than 200.
ResponseToFirstOnly(stop_api, stop_id, k) == IF k = 1 THEN stop_api[stop_id] ELSE "status"

\* What GET /stops/{stop_id} answers to the k-th lookup of a gather: the API
\* answers every request for a stop alike while the gather runs.
ResponseOf(stop_api, stop_id, k) == stop_api[stop_id]

\* The name a lookup stores and returns: data["data"]["attributes"]["name"]
\* of a 200 answer, the stop id itself after any other status.
StoredName(stop_id, kind) == IF kind = "ok" THEN ApiStopName(stop_id) ELSE stop_id

\* Mutant: a stop id is not stored as its own name.
CacheWriteNamesOnly(cache, stop_id, stop_name) ==
    IF stop_name = stop_id THEN cache
    ELSE [i \in DOMAIN cache \cup {stop_id} |-> IF i = stop_id THEN stop_name ELSE cache[i]]

\* _stop_info_cache[stop_id] = stop_name
CacheWrite(cache, stop_id, stop_name) ==
    [i \in DOMAIN cache \cup {stop_id} |-> IF i = stop_id THEN stop_name ELSE cache[i]]

LookupFinished(lookup) == lookup.pc \in {"returned", "raised"}
GatherFinished == \A k \in 1..Len(gather.lookups) : LookupFinished(gather.lookups[k])

InitLookup ==
    /\ now = 0
    /\ rate_limiter = NewLimiter(0)
    /\ last_prediction_hash = NoHash
    /\ pc = "fetching"
    /\ debug_mode = FALSE
    /\ webhook_url = ""
    /\ changed = FALSE
    /\ gate = "none"
    /\ posts = 0
    /\ outcome = "none"
    /\ answer = NoAnswer
    /\ lastDelivery = NoTime
    /\ hourDeliveries = 0
    /\ lastGap = NoGap
    /\ resetBetween = FALSE
    /\ capHour = NoHour
    /\ deliveredHash = NoHash
    /\ RetryIdle
    /\ HashIdle
    /\ ReconcileIdle

\* await asyncio.gather(*[get_stop_info(stop_id) for stop_id in ...]): the
\* coroutines are created; the gather before it has returned.
StartGather ==
    /\ gather.round < MaxGathers
    /\ GatherFinished
    /\ \E stop_ids \in LookupLists, stop_api \in [LookupIds -> StopAnswerKinds] :
         gather' = [round |-> gather.round + 1, stop_ids |-> stop_ids,
                    stop_api |-> stop_api, before |-> stop_info_cache,
                    lookups |-> [k \in 1..Len(stop_ids) |-> NewLookup(stop_ids[k])]]
    /\ UNCHANGED <<request, stop_info_cache, result, previous_result,
                   cliVars, retryVars, hashVars>>

\* get_stop_info up to its first await: a cached name is returned, otherwise
\* the request is sent.
CheckCache(k) ==
    /\ k \in 1..Len(gather.lookups)
    /\ gather.lookups[k].pc = "start"
    /\ LET stop_id == gather.lookups[k].stop_id IN
       gather' = [gather EXCEPT !.lookups[k] =
                    IF Cached(stop_info_cache, stop_id)
                    THEN [@ EXCEPT !.pc = "returned", !.seen = stop_info_cache[stop_id],
                                   !.value = stop_info_cache[stop_id]]
                    ELSE [@ EXCEPT !.pc = "fetching", !.fetched = TRUE]]
    /\ UNCHANGED <<request, stop_info_cache, result, previous_result,
                   cliVars, retryVars, hashVars>>

\* get_stop_info after the answer has come: the name, or the id after a
\* status other than 200, is stored and returned; an exception of the
\* request leaves the coroutine.
Respond(k) ==
    /\ k \in 1..Len(gather.lookups)
    /\ gather.lookups[k].pc = "fetching"
    /\ LET stop_id == gather.lookups[k].stop_id
           kind == ResponseOf(gather.stop_api, stop_id, k)
       IN IF kind = "raise"
          THEN /\ gather' = [gather EXCEPT !.lookups[k].pc = "raised"]
               /\ UNCHANGED stop_info_cache
          ELSE /\ stop_info_cache' =
                     CacheWrite(stop_info_cache, stop_id, StoredName(stop_id, kind))
               /\ gather' = [gather EXCEPT !.lookups[k].pc = "returned",
                                           !.lookups[k].value = StoredName(stop_id, kind)]
    /\ UNCHANGED <<request, result, previous_result, cliVars, retryVars, hashVars>>

NextLookup ==
    \/ StartGather
    \/ \E k \in 1..MaxLookups : CheckCache(k)
    \/ \E k \in 1..MaxLookups : Respond(k)

SpecLookup == InitLookup /\ [][NextLookup]_vars

(***************************************************************************)
(* Claims about change detection and the poll loop (specification Spec).   *)
(***************************************************************************)
\* The step in which run_once compares the hash of the fetched predictions
\* with the recorded one; afterwards last_prediction_hash' is the fetched hash
\* on both branches.
Compared == pc = "fetching" /\ pc' \in {"processing", "report"}
Skipped == pc = "fetching" /\ pc' = "report"

\* C12: a cycle skips delivery exactly when the hash of the fetched predictions
\* equals the hash of the most recent cycle whose delivery succeeded, and a
\* cycle whose delivery failed, was rate limited or raised leaves the recorded
\* hash as it was.
C12_SkipIffEqualToLastDelivered ==
    /\ [][Compared => (Skipped <=> last_prediction_hash' = deliveredHash)]_vars
    /\ [](pc = "sleeping" => last_prediction_hash = deliveredHash)

\* C13: after a cycle that changed the data but did not deliver it, a later
\* cycle that fetches the same data starts a delivery attempt (it is not
\* skipped as unchanged).
Undelivered == last_prediction_hash # deliveredHash

C13_UndeliveredDataIsAttemptedAgain ==
    [][Compared /\ Undelivered /\ last_prediction_hash' = last_prediction_hash
         => pc' = "processing"]_vars

\* Position of the loop inside one cycle, counted down towards the sleep.
Rank(p) ==
    CASE p = "fetching" -> 4
      [] p = "processing" -> 3
      [] p = "posting" -> 2
      [] p = "report" -> 1
      [] OTHER -> 0

\* C14: no failure inside a cycle ends the poll loop. The loop is always at one
\* of its five positions, every step of a cycle (a raised fetch or processing
\* error, a refused or failed delivery included) brings it nearer to the sleep,
\* a cycle is never stuck, and the sleep is followed by the next fetch (as long
\* as the clock of the model has not reached MaxTime).
C14_LoopSurvivesEveryCycle ==
    /\ [](pc \in {"fetching", "processing", "posting", "report", "sleeping"})
    /\ [](pc # "sleeping" => ENABLED Next)
    /\ [](pc = "sleeping" /\ now + Interval <= MaxTime => ENABLED Sleep)
    /\ [][pc # "sleeping" => Rank(pc') < Rank(pc)]_vars
    /\ [][pc = "sleeping" => pc' = "fetching" /\ now' = now + Interval]_vars

C14_Witness ==
    /\ pc = "sleeping"
    /\ outcome \in {"fetch_error", "process_error"}
    /\ now > 0
    /\ now + Interval <= MaxTime

(***************************************************************************)
(* Claims about calculate_prediction_hash (specification SpecHash).        *)
(***************************************************************************)
Hashed == hashOut1 # NoHash

Reorderings(n) == {f \in [1..n -> 1..n] : \A i, j \in 1..n : f[i] = f[j] => i = j}

\* b is a reordering of a.
IsPermutation(a, b) ==
    /\ Len(a) = Len(b)
    /\ \E f \in Reorderings(Len(a)) : \A i \in 1..Len(a) : b[i] = a[f[i]]

\* C15: the hash of a list of predictions is the same for every permutation of
\* the list.
C15_HashPermutationInvariant ==
    Hashed /\ IsPermutation(hashIn1, hashIn2) => hashOut1 = hashOut2

C15_Witness ==
    /\ Hashed
    /\ Len(hashIn1) >= 2
    /\ hashIn1 # hashIn2
    /\ IsPermutation(hashIn1, hashIn2)
    /\ hashOut1 = hashOut2

\* The five fields of a prediction as they are stored, and with a missing time
\* read as the empty string.
FiveFields(p) ==
    <<p.route_id, p.stop_id, p.departure_time, p.arrival_time, p.direction_id>>
FiveFieldsOrEmpty(p) ==
    <<p.route_id, p.stop_id, OrEmpty(p.departure_time), OrEmpty(p.arrival_time),
      p.direction_id>>

\* Two snapshots hold the same predictions up to their order, compared by F.
SameSnapshot(a, b, F(_)) ==
    /\ Len(a) = Len(b)
    /\ \E f \in Reorderings(Len(a)) : \A i \in 1..Len(a) : F(b[i]) = F(a[f[i]])

\* C16: two hashes differ if and only if the snapshots differ in route, stop,
\* departure time, arrival time or direction of some prediction, an absent time
\* being different from an empty one.
C16_HashDiffersIffFiveFieldsDiffer ==
    Hashed => ((hashOut1 # hashOut2) <=> ~SameSnapshot(hashIn1, hashIn2, FiveFields))

\* C16 (amended): two hashes differ if and only if the snapshots differ in
\* route, stop, departure time, arrival time or direction of some prediction,
\* where an absent time and an empty time count as the same value; a difference
\* in status alone leaves the hash equal.
C16_HashDiffersIffFiveFieldsOrEmptyDiffer ==
    Hashed => ((hashOut1 # hashOut2)
                 <=> ~SameSnapshot(hashIn1, hashIn2, FiveFieldsOrEmpty))

C16_Witness ==
    /\ Hashed
    /\ Len(hashIn1) = 1 /\ Len(hashIn2) = 1
    /\ hashIn1[1].departure_time = TimeNone
    /\ hashIn2[1].departure_time = TimeEmpty
    /\ hashOut1 = hashOut2

(***************************************************************************)
(* Claims about process_predictions (specification SpecReconcile).         *)
(***************************************************************************)
Returned == result.done /\ ~result.raised

\* The direction lists of the result.
ResultLists ==
    {result.stop_predictions[i][direction] :
        i \in 1..Len(result.stop_predictions), direction \in Directions}


\* C17: every direction list of the result has at most three entries, and its
\* entries are in non-decreasing order of the timestamps they were made from.
C17_AtMostKInChronologicalOrder ==
    Returned =>
        \A list \in ResultLists :
            /\ Len(list) <= MAX_PREDICTIONS_PER_DIRECTION
            /\ \A i, j \in 1..Len(list) : i < j => list[i].own.t <= list[j].own.t

\* C18: no direction list of the result holds the same display string twice.
C18_NoDuplicateDisplayString ==
    Returned =>
        \A list \in ResultLists :
            \A i, j \in 1..Len(list) : list[i].time_str = list[j].time_str => i = j

\* Two entries of the request for the same stop name and direction with the
\* same display string, both later than the wall clock.
SameMinute(a, b) ==
    /\ a.t > request.current_time
    /\ b.t > request.current_time
    /\ strftime(a) = strftime(b)

C18_Witness ==
    /\ Returned
    /\ \E list \in ResultLists : Len(list) = MAX_PREDICTIONS_PER_DIRECTION
    /\ \E i, j \in 1..Len(request.predictions) :
           /\ i # j
           /\ request.predictions[i].stop_id = "st-1"
           /\ request.predictions[j].stop_id = "st-1"
           /\ SameMinute(request.predictions[i].departure_time,
                         request.predictions[j].departure_time)
    /\ \E i \in 1..Len(request.predictions), j \in 1..Len(request.schedule.data) :
           /\ request.predictions[i].stop_id = "st-1"
           /\ request.schedule.data[j].stop_id = "st-2"
           /\ SameMinute(request.predictions[i].departure_time,
                         request.schedule.data[j].departure_time)

\* C19: every entry of every direction list of the result was made from a
\* timestamp later than the wall clock of the call.
C19_EveryEntryLaterThanNow ==
    Returned =>
        \A list \in ResultLists :
            \A i \in 1..Len(list) : list[i].own.t > request.current_time

\* The route process_predictions works for, and the stop order of that route:
\* the predefined list of a subway line, or for a bus route the names the MBTA
\* API gives for the stops of the route (none if a request for them fails).
RouteOfRequest ==
    IF request.predictions # <<>> THEN request.predictions[1].route_id ELSE "Orange"

RECURSIVE NamesAtApi(_)
NamesAtApi(stops) ==
    IF stops = <<>> THEN <<>>
    ELSE <<IF request.stop_api[Head(stops)] = "ok" THEN ApiStopName(Head(stops))
           ELSE Head(stops)>> \o NamesAtApi(Tail(stops))

StopOrderOfRoute ==
    IF RouteOfRequest \in DOMAIN STOP_ORDER THEN STOP_ORDER[RouteOfRequest]
    ELSE IF \/ request.route_stops.kind # "ok"
            \/ \E i \in 1..Len(request.route_stops.data) :
                   request.stop_api[request.route_stops.data[i]] = "raise"
    THEN <<>>
    ELSE NamesAtApi(request.route_stops.data)

\* C20: the result has one record for each of the first min(12, n) names of
\* the stop order of the route, at the positions stop_0, stop_1, ... in the
\* order of the names, each with an inbound and an outbound list, also when
\* both lists are empty.
C20_OneRecordPerShownStop ==
    Returned =>
        LET shown == Min(MaxStops, Len(StopOrderOfRoute)) IN
        /\ Len(result.stop_names) = shown
        /\ Len(result.stop_predictions) = shown
        /\ \A i \in 1..shown :
              /\ result.stop_names[i] = StopOrderOfRoute[i]
              /\ DOMAIN result.stop_predictions[i] = Directions

C20_Witness ==
    /\ Returned
    /\ Len(StopOrderOfRoute) > MaxStops
    /\ Len(result.stop_names) = MaxStops
    /\ \E i \in 1..MaxStops :
           /\ result.stop_predictions[i]["inbound"] = <<>>
           /\ result.stop_predictions[i]["outbound"] = <<>>
    /\ \E i \in 1..MaxStops : result.stop_predictions[i]["outbound"] # <<>>

\* The name under which process_predictions knows a stop id once the MBTA API
\* has answered for it: the name of the stop, or the id itself after a status
\* other than 200; no name when the request for it fails.
NameAtApi(stop_id) ==
    CASE request.stop_api[stop_id] = "ok" -> ApiStopName(stop_id)
      [] request.stop_api[stop_id] = "status" -> stop_id
      [] OTHER -> UnknownStop

\* The scheduled departures the call was given.
ScheduleOfRequest ==
    IF request.schedule.kind = "ok" THEN request.schedule.data ELSE <<>>

\* The direction id of the MBTA API that belongs to a direction list.
DirectionId(direction) == IF direction = "outbound" THEN 0 ELSE 1

\* The live predictions of the request for a stop name and direction, and the
\* scheduled departures with a departure time for them, in the order given.
LiveFor(stop_name, direction) ==
    {i \in 1..Len(request.predictions) :
        /\ NameAtApi(request.predictions[i].stop_id) = stop_name
        /\ request.predictions[i].direction_id = DirectionId(direction)}

RECURSIVE DeparturesFor(_, _, _)
DeparturesFor(scheduled_times, stop_name, direction) ==
    IF scheduled_times = <<>> THEN <<>>
    ELSE (IF /\ IsTime(Head(scheduled_times).departure_time)
             /\ NameAtApi(Head(scheduled_times).stop_id) = stop_name
             /\ Head(scheduled_times).direction_id = DirectionId(direction)
          THEN <<Head(scheduled_times).departure_time>> ELSE <<>>)
         \o DeparturesFor(Tail(scheduled_times), stop_name, direction)

Chronological(times) == \A i, j \in 1..Len(times) : i < j => times[i].t <= times[j].t
LaterThanNow(times) == \A i \in 1..Len(times) : times[i].t > request.current_time

\* The timestamps the entries of a direction list were made from.
OwnTimes(list) == [i \in 1..Len(list) |-> list[i].own]

\* The timestamps of times whose display string no earlier one has.
RECURSIVE FirstOfEachMinute(_, _)
FirstOfEachMinute(times, seen_times) ==
    IF times = <<>> THEN <<>>
    ELSE IF strftime(Head(times)) \in seen_times
    THEN FirstOfEachMinute(Tail(times), seen_times)
    ELSE <<Head(times)>>
         \o FirstOfEachMinute(Tail(times), seen_times \cup {strftime(Head(times))})

\* A stop and direction of the result without live predictions whose
\* scheduled departures are in chronological order and later than the wall
\* clock.
OrderedAndLater(departures) == Chronological(departures) /\ LaterThanNow(departures)

ScheduleOnly(i, direction) ==
    /\ LiveFor(result.stop_names[i], direction) = {}
    /\ OrderedAndLater(DeparturesFor(ScheduleOfRequest, result.stop_names[i], direction))

\* The list is made of the first three of the departures, and of the first
\* three of them with display strings of their own.
IsFirstK(list, departures) ==
    OwnTimes(list) = Prefix(departures, MAX_PREDICTIONS_PER_DIRECTION)
IsFirstKDistinct(list, departures) ==
    OwnTimes(list) = Prefix(FirstOfEachMinute(departures, {}),
                            MAX_PREDICTIONS_PER_DIRECTION)

\* C21 as stated: without live predictions, and with scheduled departures in
\* chronological order and later than now, the list of a stop and direction is
\* the first three of these departures in their order.
C21_ScheduleOnlyGivesFirstK ==
    Returned =>
        \A i \in 1..Len(result.stop_names), direction \in Directions :
            ScheduleOnly(i, direction) =>
                IsFirstK(result.stop_predictions[i][direction],
                         DeparturesFor(ScheduleOfRequest, result.stop_names[i],
                                       direction))

\* C21 amended: the list is the first three of these departures that differ in
\* their display string (of two departures shown as the same minute only the
\* first is taken).
C21_ScheduleOnlyGivesFirstKDistinct ==
    Returned =>
        \A i \in 1..Len(result.stop_names), direction \in Directions :
            ScheduleOnly(i, direction) =>
                IsFirstKDistinct(result.stop_predictions[i][direction],
                                 DeparturesFor(ScheduleOfRequest, result.stop_names[i],
                                               direction))

\* Scenario B with more departures than shown: five outbound departures at
\* State, two of them in the same minute, and the first three minutes listed.
C21_Witness ==
    /\ Returned
    /\ request.predictions = <<>>
    /\ \E i \in 1..Len(result.stop_names) :
           /\ ScheduleOnly(i, "outbound")
           /\ Len(DeparturesFor(ScheduleOfRequest, result.stop_names[i], "outbound")) = 5
           /\ Len(result.stop_predictions[i]["outbound"]) = MAX_PREDICTIONS_PER_DIRECTION
           /\ result.stop_predictions[i]["outbound"][1].time_str = <<10, 0, 0>>
           /\ result.stop_predictions[i]["outbound"][2].time_str = <<10, 15, 0>>
           /\ result.stop_predictions[i]["outbound"][3].time_str = <<10, 30, 0>>

\* C22: when the schedule request gives no departures, process_predictions
\* returns, and every direction list holds only live predictions later than
\* the wall clock, in chronological order and at most three of them.
C22_NoScheduleLiveOnly ==
    result.done /\ request.schedule.kind # "raise" /\ ScheduleOfRequest = <<>> =>
        /\ ~result.raised
        /\ \A list \in ResultLists :
              /\ Len(list) <= MAX_PREDICTIONS_PER_DIRECTION
              /\ \A i \in 1..Len(list) :
                    list[i].live /\ list[i].own.t > request.current_time
              /\ Chronological(OwnTimes(list))

\* C23: a live prediction or scheduled departure whose stop lookup fails makes
\* no entry and does not make process_predictions raise: the call returns, and
\* every entry of a list was made from a prediction or departure of that
\* direction whose stop id has the name of the stop.
C23_UnresolvedStopContributesNothing ==
    /\ result.done
    /\ request.schedule.kind # "raise"
    /\ HasFirstScheduled(ScheduleOfRequest)
    => /\ ~result.raised
       /\ \A i \in 1..Len(result.stop_names), direction \in Directions :
             \A k \in 1..Len(result.stop_predictions[i][direction]) :
                LET e == result.stop_predictions[i][direction][k] IN
                IF e.live
                THEN \E p \in LiveFor(result.stop_names[i], direction) :
                        DepartureOf(request.predictions[p]) = e.own
                ELSE \E j \in 1..Len(DeparturesFor(ScheduleOfRequest,
                                                    result.stop_names[i], direction)) :
                        DeparturesFor(ScheduleOfRequest, result.stop_names[i],
                                      direction)[j] = e.own

\* C24: a second call of process_predictions with the same live predictions,
\* scheduled departures, answers of the MBTA API and wall clock returns (or
\* raises) what the first call did, although it starts on the stop-name cache
\* the first call filled.
C24_SecondCallSameResult ==
    previous_result.done => result = previous_result

\* Both calls have returned; the first one stored stop names, and a list of
\* the result holds a live and a scheduled entry.
C24_Witness ==
    /\ previous_result.done
    /\ Returned
    /\ result = previous_result
    /\ DOMAIN stop_info_cache # {}
    /\ \E list \in ResultLists :
           \E i, j \in 1..Len(list) : list[i].live /\ ~list[j].live

\* The live predictions and the scheduled departures of the request at a stop
\* name from which an entry may have been made: those with its timestamp.
LiveSources(e, stop_name) ==
    {p \in 1..Len(request.predictions) :
        /\ NameAtApi(request.predictions[p].stop_id) = stop_name
        /\ DepartureOf(request.predictions[p]) = e.own}
ScheduledSources(e, stop_name) ==
    {j \in 1..Len(ScheduleOfRequest) :
        /\ NameAtApi(ScheduleOfRequest[j].stop_id) = stop_name
        /\ ScheduleOfRequest[j].departure_time = e.own}

\* C25: an entry of an outbound list was made from a live prediction or a
\* scheduled departure with direction id 0, an entry of an inbound list from
\* one with direction id 1, on every route.
C25_DirectionIdDecidesList ==
    Returned =>
        \A i \in 1..Len(result.stop_names), direction \in Directions :
            \A k \in 1..Len(result.stop_predictions[i][direction]) :
               LET e == result.stop_predictions[i][direction][k] IN
               IF e.live
               THEN /\ LiveSources(e, result.stop_names[i]) # {}
                    /\ \A p \in LiveSources(e, result.stop_names[i]) :
                          request.predictions[p].direction_id = DirectionId(direction)
               ELSE /\ ScheduledSources(e, result.stop_names[i]) # {}
                    /\ \A j \in ScheduledSources(e, result.stop_names[i]) :
                          ScheduleOfRequest[j].direction_id = DirectionId(direction)

\* A result with a live and a scheduled entry in an outbound list and a live
\* entry in an inbound list.
C25_Witness ==
    /\ Returned
    /\ \E i \in 1..Len(result.stop_names) :
           \E k, l \in 1..Len(result.stop_predictions[i]["outbound"]) :
              /\ result.stop_predictions[i]["outbound"][k].live
              /\ ~result.stop_predictions[i]["outbound"][l].live
    /\ \E i \in 1..Len(result.stop_names) :
           \E k \in 1..Len(result.stop_predictions[i]["inbound"]) :
              result.stop_predictions[i]["inbound"][k].live

\* The stop name of a scheduled departure: the name it carries, or without
\* one the name of its stop id.
NameOfDeparture(schedule) ==
    IF schedule.stop_name # UnknownStop THEN schedule.stop_name
    ELSE NameAtApi(schedule.stop_id)

\* The scheduled departures with a departure time later than the wall clock
\* that belong to a stop name and direction by NameOfDeparture.
NamedFor(stop_name, direction) ==
    {j \in 1..Len(ScheduleOfRequest) :
        /\ IsTime(ScheduleOfRequest[j].departure_time)
        /\ ScheduleOfRequest[j].departure_time.t > request.current_time
        /\ NameOfDeparture(ScheduleOfRequest[j]) = stop_name
        /\ ScheduleOfRequest[j].direction_id = DirectionId(direction)}

\* C26: a scheduled departure is placed by the stop name it carries, also
\* when its stop id is not one of a live prediction and has no name in the
\* cache, and without a name and without a resolvable id it is left out. For
\* a stop and direction without live predictions and with at most three such
\* departures: each of them is in the list, and every entry of the list is
\* one of them.
C26_PlacedByCarriedStopName ==
    Returned =>
        \A i \in 1..Len(result.stop_names), direction \in Directions :
            /\ LiveFor(result.stop_names[i], direction) = {}
            /\ Cardinality(NamedFor(result.stop_names[i], direction))
                  <= MAX_PREDICTIONS_PER_DIRECTION
            => /\ \A j \in NamedFor(result.stop_names[i], direction) :
                     \E k \in 1..Len(result.stop_predictions[i][direction]) :
                        result.stop_predictions[i][direction][k].time_str
                           = strftime(ScheduleOfRequest[j].departure_time)
               /\ \A k \in 1..Len(result.stop_predictions[i][direction]) :
                     \E j \in NamedFor(result.stop_names[i], direction) :
                        result.stop_predictions[i][direction][k].own
                           = ScheduleOfRequest[j].departure_time

\* The request for the stops of a bus route fails, or a request for the name
\* of one of these stops fails.
StopSequenceFetchFails ==
    /\ RouteOfRequest \notin DOMAIN STOP_ORDER
    /\ \/ request.route_stops.kind # "ok"
       \/ \E i \in 1..Len(request.route_stops.data) :
              request.stop_api[request.route_stops.data[i]] = "raise"

\* process_predictions gets as far as the stop order: the schedule request and
\* the stop lookups for the scheduled departures do not raise.
ReachesStopOrder ==
    /\ request.schedule.kind # "raise"
    /\ \A j \in 1..Len(ScheduleOfRequest) :
          request.stop_api[ScheduleOfRequest[j].stop_id] # "raise"

\* C27: on a route without a predefined stop list, a failure of the fetch of
\* the stop sequence gives an empty stop order, and the call of
\* process_predictions that asked for it returns no stops and does not raise.
C27_FailedStopFetchGivesNoStops ==
    result.done /\ StopSequenceFetchFails /\ ReachesStopOrder =>
        /\ ~result.raised
        /\ result.stop_names = <<>>
        /\ result.stop_predictions = <<>>

\* A call on a bus route with a live prediction at a stop whose name was
\* found, scheduled departures, and a failed request for the stops of the
\* route.
C27_Witness ==
    /\ Returned
    /\ StopSequenceFetchFails
    /\ request.route_stops.kind = "raise"
    /\ ScheduleOfRequest # <<>>
    /\ \E p \in 1..Len(request.predictions) :
           CacheGet(stop_info_cache, request.predictions[p].stop_id) = "State"
    /\ result.stop_names = <<>>

\* C28: a failed fetch of the scheduled departures (a timeout or connection
\* error, or a status other than 200) counts as an empty schedule: the call of
\* process_predictions returns, and its lists hold the live predictions only.
C28_FailedScheduleFetchCountsAsEmpty ==
    result.done /\ request.schedule.kind \in {"raise", "status"} =>
        /\ ~result.raised
        /\ \A list \in ResultLists : \A i \in 1..Len(list) : list[i].live

(***************************************************************************)
(* Claims about the webhook url and the hourly window (specification Spec). *)
(***************************************************************************)
\* TRMNL_WEBHOOK_URL is not set, or does not start with http:// or https://.
BadWebhookUrl == webhook_url \in {"", "ftp://trmnl"}

\* With such a url no POST is issued, update_trmnl_display returns to run_once
\* (the cycle goes on to its report), and the sleep is followed by the next
\* cycle.
NoPostNoRaise ==
    /\ [](BadWebhookUrl => posts = 0 /\ pc # "posting")
    /\ [][BadWebhookUrl /\ pc = "processing" /\ outcome' # "process_error"
            => pc' = "report"
               /\ outcome' \in {"no_template", "rate_limited", "debug", "no_url",
                                 "bad_url"}]_vars
    /\ [](BadWebhookUrl /\ pc = "sleeping" /\ now + Interval <= MaxTime
            => ENABLED Sleep)

\* C29 as stated: with a missing or malformed webhook url a cycle issues no
\* POST, raises no exception, the loop goes on to the next cycle, and no step
\* of the cycle changes the rate limiter.
C29_BadUrlLeavesLimiterUnchanged ==
    /\ NoPostNoRaise
    /\ [][BadWebhookUrl => rate_limiter' = rate_limiter]_vars

\* C29 amended: no update is recorded (the count stays 0 and no time of a
\* last update is kept), and the limiter changes only by the reset of
\* can_update(), which moves hour_start to the start of the current hour.
C29_BadUrlRecordsNoUpdate ==
    /\ NoPostNoRaise
    /\ [](BadWebhookUrl => /\ rate_limiter.updates_this_hour = 0
                            /\ rate_limiter.last_update_time = NoTime)
    /\ [][BadWebhookUrl
            => rate_limiter' \in {rate_limiter,
                                  [rate_limiter EXCEPT
                                      !.hour_start = CurrentHourStart(now)]}]_vars

\* A cycle with a url without http scheme ended without a POST in an hour
\* later than the one the process started in, and the next cycle has begun.
C29_Witness ==
    /\ webhook_url = "ftp://trmnl"
    /\ ~debug_mode
    /\ pc = "fetching"
    /\ now >= HourSeconds
    /\ rate_limiter.hour_start = HourSeconds
    /\ last_prediction_hash # NoHash

\* A step in which can_update() is called: update_trmnl_display past its
\* template check, or get_rate_limit_status at the end of run_once.
CallsCanUpdate ==
    \/ pc = "processing" /\ gate' \in {"true", "false"}
    \/ pc = "report" /\ pc' = "sleeping"

\* The start of the clock hour of t.
HourOf(t) == t - (t % HourSeconds)

\* C30: a call of can_update() in a later hour than hour_start sets
\* updates_this_hour to 0, hour_start to the start of the current hour and
\* clears last_update_time, and decides on these values (the update is
\* allowed); hour_start is always a full hour and never decreases.
C30_RolloverResetsBeforeDeciding ==
    /\ [][CallsCanUpdate /\ HourOf(now) > rate_limiter.hour_start
            => /\ rate_limiter' = [updates_this_hour |-> 0,
                                   hour_start |-> HourOf(now),
                                   last_update_time |-> NoTime]
               /\ pc = "processing" => gate' = "true"]_vars
    /\ [](rate_limiter.hour_start % HourSeconds = 0)
    /\ [][rate_limiter'.hour_start >= rate_limiter.hour_start]_vars

\* An update was delivered in the first hour, and in the second hour
\* can_update() has reset the limiter and allowed the POST that is under way.
C30_Witness ==
    /\ pc = "posting"
    /\ gate = "true"
    /\ lastDelivery # NoTime
    /\ lastDelivery < HourSeconds
    /\ rate_limiter = [updates_this_hour |-> 0, hour_start |-> HourSeconds,
                       last_update_time |-> NoTime]

(***************************************************************************)
(* Claims about the waits of the retry publisher (specification SpecRetry). *)
(***************************************************************************)
\* The Retry-After headers that are integers, and their values in seconds.
IntegerHeaders == {"0", "5", "3600"}
HeaderSeconds(h) ==
    CASE h = "0" -> 0
      [] h = "5" -> 5
      [] h = "3600" -> 3600

\* min(base * 2^attempt, ceiling) for the i-th attempt of a call (attempt
\* number i - 1).
ComputedDelay(i) ==
    IF 2 ^ (i - 1) * BaseDelay < MaxDelay THEN 2 ^ (i - 1) * BaseDelay ELSE MaxDelay

\* C31: the wait after a 429 answer is the value of the Retry-After header if
\* the header is there and is an integer, and the exponential delay of the
\* attempt if it is absent, empty or not an integer.
C31_RetryAfterPreferred ==
    \A i \in 1..Len(waits) :
        IsStatus(tries[i], 429) =>
            waits[i] = IF tries[i].retry_after \in IntegerHeaders
                       THEN HeaderSeconds(tries[i].retry_after)
                       ELSE ComputedDelay(i)

\* Four 429 answers: without a header, with one that is no number, with 5, and
\* with an empty one.
C31_Witness ==
    /\ Len(tries) >= 4
    /\ tries[1] = Response(429, NoHeader)
    /\ tries[2] = Response(429, "soon")
    /\ tries[3] = Response(429, "5")
    /\ tries[4] = Response(429, "")
    /\ waits = <<1, 2, 5, 8>>

\* C36: no wait between two attempts is longer than the maximum delay of 900
\* seconds, whether it was computed or taken from a Retry-After header.
C36_NoWaitAboveMaxDelay ==
    \A i \in 1..Len(waits) : waits[i] <= MaxDelay

(***************************************************************************)
(* A claim about the counter of the rate limiter (specification Spec).     *)
(***************************************************************************)
\* C35: updates_this_hour is never below 0 and never above
\* max_updates_per_hour (record_update is called only after can_update
\* returned True in the same call of update_trmnl_display).
C35_CountWithinCap ==
    /\ rate_limiter.updates_this_hour >= 0
    /\ rate_limiter.updates_this_hour <= MaxUpdatesPerHour

\* The twelfth update of a clock hour has been recorded.
C35_Witness ==
    /\ rate_limiter.updates_this_hour = MaxUpdatesPerHour
    /\ hourDeliveries = MaxUpdatesPerHour
    /\ outcome = "delivered"

(***************************************************************************)
(* Further claims about process_predictions (specification SpecReconcile).  *)
(***************************************************************************)
LiveEntries(list) == {k \in 1..Len(list) : list[k].live}
ScheduledEntries(list) == {k \in 1..Len(list) : ~list[k].live}

\* The scheduled departures of a stop name and direction that may fill up
\* list: later than the wall clock and than every live entry of the list, with
\* a display string the list does not hold.
Eligible(list, stop_name, direction) ==
    {j \in 1..Len(ScheduleOfRequest) :
        /\ IsTime(ScheduleOfRequest[j].departure_time)
        /\ NameAtApi(ScheduleOfRequest[j].stop_id) = stop_name
        /\ ScheduleOfRequest[j].direction_id = DirectionId(direction)
        /\ ScheduleOfRequest[j].departure_time.t > request.current_time
        /\ \A k \in LiveEntries(list) :
              ScheduleOfRequest[j].departure_time.t > list[k].own.t
        /\ \A k \in 1..Len(list) :
              strftime(ScheduleOfRequest[j].departure_time) # list[k].time_str}

\* The backfill rule for one list with fewer than three live entries.
Backfilled(list, stop_name, direction) ==
    /\ \A k \in ScheduledEntries(list) :
          /\ \A l \in LiveEntries(list) : l < k /\ list[l].own.t < list[k].own.t
          /\ \A l \in ScheduledEntries(list) : l < k => list[l].own.t <= list[k].own.t
    /\ \A k, l \in 1..Len(list) : list[k].time_str = list[l].time_str => k = l
    /\ \A j \in Eligible(list, stop_name, direction) :
          /\ Len(list) = MAX_PREDICTIONS_PER_DIRECTION
          /\ \A k \in ScheduledEntries(list) :
                list[k].own.t <= ScheduleOfRequest[j].departure_time.t

\* C32: a list with fewer than three live entries is filled up with scheduled
\* departures of its stop and direction that are later than its latest live
\* entry and whose display string it does not hold yet, the earliest first,
\* until it has three entries.
C32_BackfillAfterLatestLive ==
    Returned =>
        \A i \in 1..Len(result.stop_names), direction \in Directions :
            Cardinality(LiveEntries(result.stop_predictions[i][direction]))
                < MAX_PREDICTIONS_PER_DIRECTION
            => Backfilled(result.stop_predictions[i][direction],
                          result.stop_names[i], direction)

\* A step of one gather: the lookups before and after it are the same
\* coroutines.
SameGather == gather'.round = gather.round /\ Len(gather'.lookups) = Len(gather.lookups)

\* Every entry of the cache is still there, with its value, after the step.
EntriesKept ==
    \A stop_id \in DOMAIN stop_info_cache :
        /\ stop_id \in DOMAIN stop_info_cache'
        /\ stop_info_cache'[stop_id] = stop_info_cache[stop_id]

\* A lookup that runs when its stop id has an entry returns the entry and
\* sends no request.
CachedIsReturned ==
    \A k \in 1..Len(gather.lookups) :
        (/\ SameGather
         /\ gather.lookups[k].pc = "start"
         /\ gather'.lookups[k].pc # "start"
         /\ gather.lookups[k].stop_id \in DOMAIN stop_info_cache)
        => /\ gather'.lookups[k].pc = "returned"
           /\ gather'.lookups[k].value = stop_info_cache[gather.lookups[k].stop_id]
           /\ ~gather'.lookups[k].fetched

\* C33: the stop cache memoizes: once a stop id has an entry, every later
\* get_stop_info for that id returns the value of the entry without sending a
\* request, and no step ever changes or removes an entry.
C33_CacheMemoizes == [][EntriesKept /\ CachedIsReturned]_vars

\* A second gather in which the API would answer another status for "st-1",
\* whose lookup of "st-1" has returned the name cached by the first gather
\* without a request.
C33_Witness ==
    /\ gather.round = 2
    /\ gather.stop_api["st-1"] = "status"
    /\ gather.stop_ids = <<"st-1">>
    /\ gather.lookups[1].pc = "returned"
    /\ ~gather.lookups[1].fetched
    /\ gather.lookups[1].value = "State"
    /\ gather.before = stop_info_cache

\* The cache after the lookups of a gather have run one after another, in the
\* order of the list.
RECURSIVE OneAfterAnother(_, _, _)
OneAfterAnother(cache, stop_ids, stop_api) ==
    IF stop_ids = <<>> THEN cache
    ELSE OneAfterAnother(CacheAfterStopInfo(cache, Head(stop_ids), stop_api),
                         Tail(stop_ids), stop_api)

IdStoredAsName ==
    \A k \in 1..Len(gather.lookups) :
        LET lookup == gather.lookups[k] IN
        (lookup.pc = "returned" /\ lookup.fetched /\ gather.stop_api[lookup.stop_id] = "status")
        => /\ lookup.value = lookup.stop_id
           /\ lookup.stop_id \in DOMAIN stop_info_cache
           /\ stop_info_cache[lookup.stop_id] = lookup.stop_id

\* A stop id cached as its own name stays so, and no lookup sends a request
\* for it.
IdStaysTheName ==
    \A stop_id \in DOMAIN stop_info_cache :
        stop_info_cache[stop_id] = stop_id
        => /\ stop_id \in DOMAIN stop_info_cache'
           /\ stop_info_cache'[stop_id] = stop_id
           /\ \A k \in 1..Len(gather.lookups) :
                (SameGather /\ gather.lookups[k].stop_id = stop_id
                            /\ ~gather.lookups[k].fetched)
                => ~gather'.lookups[k].fetched

\* C38: a stop lookup answered with a status other than 200 stores the stop id
\* as the name and returns it; from then on no lookup sends a request for that
\* id and the id stays the name, also when the API would answer 200.
C38_FailedLookupCachedForGood == []IdStoredAsName /\ [][IdStaysTheName]_vars

\* A second gather in which the API would answer 200 for "st-1", whose lookup
\* of "st-1" has returned the id cached by the first gather without a request.
C38_Witness ==
    /\ gather.round = 2
    /\ gather.stop_api["st-1"] = "ok"
    /\ gather.stop_ids = <<"st-1">>
    /\ gather.lookups[1].pc = "returned"
    /\ ~gather.lookups[1].fetched
    /\ gather.lookups[1].value = "st-1"
    /\ stop_info_cache["st-1"] = "st-1"

\* The stop order of the configured route: the predefined list of a subway
\* line, or for a bus route the names the MBTA API gives for the stops of the
\* route (none if a request for them fails).
StopOrderOfConfiguredRoute ==
    IF request.route_id \in DOMAIN STOP_ORDER THEN STOP_ORDER[request.route_id]
    ELSE IF \/ request.route_stops.kind # "ok"
            \/ \E i \in 1..Len(request.route_stops.data) :
                   request.stop_api[request.route_stops.data[i]] = "raise"
    THEN <<>>
    ELSE NamesAtApi(request.route_stops.data)

\* C37: the stops of the result are the first stops of the stop order of the
\* route configured for the cycle, for every route, also when the cycle has no
\* live predictions.
C37_StopOrderOfConfiguredRoute ==
    Returned =>
        LET shown == Min(MaxStops, Len(StopOrderOfConfiguredRoute)) IN
        /\ Len(result.stop_names) = shown
        /\ \A i \in 1..shown : result.stop_names[i] = StopOrderOfConfiguredRoute[i]

\* The live predictions of a stop name and direction whose own timestamp is
\* later than the wall clock.
LiveLaterThanNow(stop_name, direction) ==
    {p \in LiveFor(stop_name, direction) :
        /\ IsTime(DepartureOf(request.predictions[p]))
        /\ DepartureOf(request.predictions[p]).t > request.current_time}

\* C39: the past-time filter decides from the timestamp of the prediction
\* alone: a live prediction at a stop of the result that is later than the
\* wall clock is kept, whatever the date and the UTC offset of the first
\* scheduled departure. Where a stop and direction has no more than three live
\* predictions, each of them that is later than the wall clock has its display
\* string among the live entries of the list.
C39_FutureLivePassesFilter ==
    Returned =>
        \A i \in 1..Len(result.stop_names), direction \in Directions :
            Cardinality(LiveFor(result.stop_names[i], direction))
                <= MAX_PREDICTIONS_PER_DIRECTION
            => \A p \in LiveLaterThanNow(result.stop_names[i], direction) :
                   \E k \in LiveEntries(result.stop_predictions[i][direction]) :
                       result.stop_predictions[i][direction][k].time_str
                           = strftime(DepartureOf(request.predictions[p]))

====
